---- MODULE Spec2Model ----
(***************************************************************************)
(* KuCode front end: the lexer of src/test2.py (Lexer.tokenize with the    *)
(* keyword DFA and the per-kind delimiter check) and the table-driven      *)
(* LL(1) parser of src/table_driven_parser.py (FIRST/FOLLOW, the parsing   *)
(* table, and the stack machine of parse).                                 *)
(*                                                                         *)
(* A text is a sequence of one-character strings.  A cursor offset is      *)
(* 0-based as in the Python code, so Python's source[idx] is src[idx + 1]. *)
(***************************************************************************)
EXTENDS Integers, Sequences, FiniteSets, TLC

VARIABLES
    source,         \* Lexer.source
    pos,            \* Lexer.pos, a Position [idx, ln, col]
    tokens,         \* tokenize: the list tokens
    errors,         \* tokenize: the list errors
    scan,           \* tokenize: the locals of the loop iteration just run
    lexpc,          \* "scan" inside the while loop, "done" after the return
    calls,          \* the calls of tokenize that returned before this one
    order,          \* the iteration order of the parser's sets in this run
    form,           \* the sentential form from which the input is derived
    derived,        \* TRUE when parser_tokens is a sentence of the grammar
    parser_tokens,  \* TableDrivenParser.tokens, as token kinds
    parser_pos,     \* TableDrivenParser.pos
    stack,          \* TableDrivenParser.stack
    derivations,    \* TableDrivenParser.derivations
    step,           \* parse: the local step
    outcome,        \* "unbuilt", "running", "True" or "SyntaxError"
    message,        \* the message of the SyntaxError
    analyzer,       \* the SemanticAnalyzer and the call stack of its walk
    types           \* the last call of a type helper and what it returned

lexvars == <<source, pos, tokens, errors, scan, lexpc, calls>>

parservars ==
    <<order, form, derived, parser_tokens, parser_pos, stack, derivations,
      step, outcome, message>>

semvars == <<analyzer, types>>

vars == <<lexvars, parservars, semvars>>

-----------------------------------------------------------------------------
(* Bounds of the model *)

\* longest text over Alphabet that is tried in full
MaxLen == 2
\* longest tail put after a reserved word
MaxTail == 2
\* longest run of one identifier character or digit
MaxRun == 22

-----------------------------------------------------------------------------
(* Character classes, token kinds and delimiter tables *)

None == "None"

NUM == {"0", "1", "2", "3", "4", "5", "6", "7", "8", "9"}

LETTERS ==
    {"a", "b", "c", "d", "e", "f", "g", "h", "i", "j", "k", "l", "m",
     "n", "o", "p", "q", "r", "s", "t", "u", "v", "w", "x", "y", "z",
     "A", "B", "C", "D", "E", "F", "G", "H", "I", "J", "K", "L", "M",
     "N", "O", "P", "Q", "R", "S", "T", "U", "V", "W", "X", "Y", "Z"}

LETTERNUM == NUM \cup LETTERS

WHITESPACE == {"\n", "\t", " "}

\* string.printable, less the vertical tab and the backquote, which a TLA+
\* string cannot hold
Printable ==
    LETTERNUM \cup WHITESPACE \cup {"\r", "\f"} \cup
    {"!", "\"", "#", "$", "%", "&", "'", "(", ")", "*", "+", ",", "-", ".",
     "/", ":", ";", "<", "=", ">", "?", "@", "[", "\\", "]", "^", "_",
     "{", "|", "}", "~"}

keywords ==
    {"No", "Yes", "bigdecimal", "bool", "check", "decimal", "define",
     "during", "each", "empty", "fallback", "finish", "fixed", "from",
     "give", "group", "letter", "list", "none", "num", "option", "otherwise",
     "otherwisecheck", "read", "select", "show", "skip", "start", "step",
     "stop", "text", "to", "worldwide"}

\* a reserved word as the characters of its Python string
Chars ==
    "No" :> <<"N", "o">> @@ "Yes" :> <<"Y", "e", "s">> @@
    "bigdecimal" :> <<"b", "i", "g", "d", "e", "c", "i", "m", "a", "l">> @@
    "bool" :> <<"b", "o", "o", "l">> @@
    "check" :> <<"c", "h", "e", "c", "k">> @@
    "decimal" :> <<"d", "e", "c", "i", "m", "a", "l">> @@
    "define" :> <<"d", "e", "f", "i", "n", "e">> @@
    "during" :> <<"d", "u", "r", "i", "n", "g">> @@
    "each" :> <<"e", "a", "c", "h">> @@
    "empty" :> <<"e", "m", "p", "t", "y">> @@
    "fallback" :> <<"f", "a", "l", "l", "b", "a", "c", "k">> @@
    "finish" :> <<"f", "i", "n", "i", "s", "h">> @@
    "fixed" :> <<"f", "i", "x", "e", "d">> @@
    "from" :> <<"f", "r", "o", "m">> @@ "give" :> <<"g", "i", "v", "e">> @@
    "group" :> <<"g", "r", "o", "u", "p">> @@
    "letter" :> <<"l", "e", "t", "t", "e", "r">> @@
    "list" :> <<"l", "i", "s", "t">> @@ "none" :> <<"n", "o", "n", "e">> @@
    "num" :> <<"n", "u", "m">> @@
    "option" :> <<"o", "p", "t", "i", "o", "n">> @@
    "otherwise" :> <<"o", "t", "h", "e", "r", "w", "i", "s", "e">> @@
    "otherwisecheck" :> <<"o", "t", "h", "e", "r", "w", "i", "s", "e", "c", "h", "e", "c", "k">> @@
    "read" :> <<"r", "e", "a", "d">> @@
    "select" :> <<"s", "e", "l", "e", "c", "t">> @@
    "show" :> <<"s", "h", "o", "w">> @@ "skip" :> <<"s", "k", "i", "p">> @@
    "start" :> <<"s", "t", "a", "r", "t">> @@
    "step" :> <<"s", "t", "e", "p">> @@ "stop" :> <<"s", "t", "o", "p">> @@
    "text" :> <<"t", "e", "x", "t">> @@ "to" :> <<"t", "o">> @@
    "worldwide" :> <<"w", "o", "r", "l", "d", "w", "i", "d", "e">>

IDENTIFIER == "id"
LIT_NUMBER == "num_literal"
LIT_DECIMAL == "decimal_literal"
LIT_STRING == "text_literal"
LIT_CHARACTER == "letter_literal"
WHITESPACE_SPACE == "space"
WHITESPACE_TAB == "WHITESPACE_TAB"
NEWLINE == "newline"
EOF == "EOF"
COMMENT_SINGLE == "~"
COMMENT_MULTI == "~~"

DELIM_SETS ==
    [space_semcol |-> {" ", ";"},
     space |-> {" "},
     space_nline |-> {" ", "\n", "{"},
     delim1 |-> {" ", "{"},
     delim2 |-> {" ", "("},
     delim3 |-> {" ", "(", "\"", "'", "["} \cup LETTERNUM,
     escseq_delim |-> {" ", "\""} \cup LETTERNUM \cup {"_"},
     sem_col |-> {";"},
     op_delim |-> {" ", "("} \cup LETTERNUM,
     open_paren |-> {"("},
     comma_delim |-> {" ", "(", "\"", "'", "{", "["} \cup LETTERNUM,
     open_list |-> {" ", "\"", "'", "[", "]"} \cup LETTERNUM,
     close_list |-> {" ", ";", ",", "=", "]", "[", "+", "-", "*", "/", "%",
                     "&", "|", "!", "<", ">", ")"},
     openparen_delim |-> {" ", "'", "\"", "(", ")", "!", "-"} \cup LETTERNUM,
     closeparen_delim |-> {" ", "+", "-", "*", "/", "%", "&", "|", "!", "=",
                           "<", ">", ";", "{", ")"},
     bool_delim |-> {" ", "&", "|", "!", ";", ")", ":"},
     string_char |-> {" ", "\n", ",", "+", ")", "]", "}", ";", ":"},
     lit_delim |-> {" ", "\n", "}", "]", ")", ",", ";", "+", "-", "*", "/",
                    "%", "=", "!", "<", ">", "&", "|", ":"},
     identifier_del |-> {" ", "\n", "+", "-", "*", "/", "%", "=", "<", ">",
                         "(", ")", "]", ",", ";", "}", "&", "|", "!", ".",
                         "{", "["},
     num |-> NUM,
     id3 |-> {" "} \cup NUM,
     ascii |-> Printable,
     delim7 |-> {" ", "\n", "\"", "'"} \cup LETTERNUM,
     dot_delim |-> NUM \cup LETTERS,
     not_delim |-> {"(", "-"} \cup LETTERNUM \cup {"\"", "'"}]

TOKEN_DELIMITERS ==
    "bigdecimal" :> "space" @@ "bool" :> "space" @@ "check" :> "delim2" @@
    "decimal" :> "space" @@ "define" :> "space" @@ "during" :> "delim2" @@
    "each" :> "delim2" @@ "empty" :> "space" @@ "fallback" :> "sem_col" @@
    "finish" :> "space_nline" @@ "from" :> "space" @@ "fixed" :> "space" @@
    "give" :> "space_semcol" @@ "group" :> "space" @@ "letter" :> "space" @@
    "num" :> "space" @@ "none" :> "sem_col" @@ "No" :> "bool_delim" @@
    "option" :> "space" @@ "otherwise" :> "delim1" @@
    "otherwisecheck" :> "delim2" @@ "read" :> "open_paren" @@
    "select" :> "delim2" @@ "show" :> "open_paren" @@ "skip" :> "sem_col" @@
    "start" :> "delim1" @@ "step" :> "id3" @@ "stop" :> "sem_col" @@
    "text" :> "space" @@ "to" :> "space" @@ "worldwide" :> "space" @@
    "Yes" :> "bool_delim" @@ "list" :> "space" @@
    "bool_literal" :> "bool_delim" @@
    "+" :> "delim3" @@ "++" :> "sem_col" @@ "+=" :> "op_delim" @@
    "-" :> "op_delim" @@ "--" :> "sem_col" @@ "-=" :> "op_delim" @@
    "/" :> "op_delim" @@ "/=" :> "op_delim" @@ "*" :> "op_delim" @@
    "*=" :> "op_delim" @@ "**" :> "op_delim" @@ "**=" :> "op_delim" @@
    "%" :> "op_delim" @@ "%=" :> "op_delim" @@ "=" :> "delim3" @@
    "==" :> "delim3" @@ "!" :> "not_delim" @@ "!=" :> "delim3" @@
    ">" :> "op_delim" @@ ">=" :> "op_delim" @@ "<" :> "op_delim" @@
    "<=" :> "op_delim" @@ "&&" :> "op_delim" @@ "||" :> "op_delim" @@
    "[" :> "open_list" @@ "]" :> "close_list" @@ "{" :> "space_nline" @@
    "}" :> "space_nline" @@ "(" :> "openparen_delim" @@
    ")" :> "closeparen_delim" @@ "." :> "dot_delim" @@
    "," :> "comma_delim" @@ ";" :> "space_nline" @@ ":" :> "space_nline" @@
    "~" :> "ascii" @@ "~~" :> "ascii" @@
    "num_literal" :> "lit_delim" @@ "decimal_literal" :> "lit_delim" @@
    "text_literal" :> "string_char" @@ "letter_literal" :> "string_char" @@
    "id" :> "identifier_del"

-----------------------------------------------------------------------------
(* Position, Token, LexicalError *)

\* Python's source[i], None past the end (Lexer.advance, Lexer.peek)
CharAt(src, i) == IF i < Len(src) THEN src[i + 1] ELSE None

\* Position.advance that goes on in the same line after a newline
advance_in_line(p, current_char) ==
    [idx |-> p.idx + 1, ln |-> p.ln, col |-> p.col + 1]

\* Position.advance(current_char)
advance(p, current_char) ==
    IF current_char = "\n"
    THEN [idx |-> p.idx + 1, ln |-> p.ln + 1, col |-> 0]
    ELSE [idx |-> p.idx + 1, ln |-> p.ln, col |-> p.col + 1]

\* n calls of Lexer.advance from position p
RECURSIVE advanceN(_, _, _)
advanceN(src, p, n) ==
    IF n = 0 THEN p ELSE advanceN(src, advance(p, CharAt(src, p.idx)), n - 1)

\* Python's source[i:j]
Slice(src, i, j) == SubSeq(src, i + 1, j)

Token(type, value, pos_start, pos_end) ==
    [type |-> type, value |-> value, pos_start |-> pos_start,
     pos_end |-> pos_end]

LexicalError(pos_start, pos_end, info) ==
    [pos_start |-> pos_start, pos_end |-> pos_end, info |-> info]

-----------------------------------------------------------------------------
(* TransitionDFA *)

transitions ==
    0 :> ("s" :> 1 @@ "f" :> 51 @@ "n" :> 92 @@ "d" :> 22 @@ "b" :> 180 @@ "l" :> 85 @@ "t" :> 156 @@ "w" :> 163 @@ "Y" :> 173 @@ "e" :> 41 @@ "r" :> 125 @@ "c" :> 16 @@ "o" :> 103 @@ "g" :> 80 @@ "N" :> 100) @@
    1 :> ("t" :> 2 @@ "h" :> 137 @@ "k" :> 141 @@ "e" :> 130) @@
    2 :> ("a" :> 3 @@ "o" :> 153 @@ "e" :> 150) @@ 3 :> ("r" :> 4) @@
    4 :> ("t" :> 5) @@ 5 :> << >> @@ 130 :> ("l" :> 131) @@
    131 :> ("e" :> 132) @@ 132 :> ("c" :> 133) @@ 133 :> ("t" :> 134) @@
    134 :> << >> @@ 137 :> ("o" :> 138) @@ 138 :> ("w" :> 139) @@
    139 :> << >> @@ 141 :> ("i" :> 142) @@ 142 :> ("p" :> 143) @@
    143 :> << >> @@ 150 :> ("p" :> 151) @@ 151 :> << >> @@
    153 :> ("p" :> 154) @@ 154 :> << >> @@
    156 :> ("e" :> 157 @@ "o" :> 161) @@ 157 :> ("x" :> 158) @@
    158 :> ("t" :> 159) @@ 159 :> << >> @@ 161 :> << >> @@
    163 :> ("o" :> 164) @@ 164 :> ("r" :> 165) @@ 165 :> ("l" :> 166) @@
    166 :> ("d" :> 167) @@ 167 :> ("w" :> 168) @@ 168 :> ("i" :> 169) @@
    169 :> ("d" :> 170) @@ 170 :> ("e" :> 171) @@ 171 :> << >> @@
    173 :> ("e" :> 174) @@ 174 :> ("s" :> 175) @@ 175 :> << >> @@
    16 :> ("h" :> 17) @@ 17 :> ("e" :> 18) @@ 18 :> ("c" :> 19) @@
    19 :> ("k" :> 20) @@ 20 :> << >> @@ 22 :> ("e" :> 23 @@ "u" :> 35) @@
    23 :> ("c" :> 24 @@ "f" :> 30) @@ 24 :> ("i" :> 25) @@
    25 :> ("m" :> 26) @@ 26 :> ("a" :> 27) @@ 27 :> ("l" :> 28) @@
    28 :> << >> @@ 30 :> ("i" :> 31) @@ 31 :> ("n" :> 32) @@
    32 :> ("e" :> 33) @@ 33 :> << >> @@ 35 :> ("r" :> 36) @@
    36 :> ("i" :> 37) @@ 37 :> ("n" :> 38) @@ 38 :> ("g" :> 39) @@
    39 :> << >> @@ 41 :> ("a" :> 42 @@ "m" :> 46) @@ 42 :> ("c" :> 43) @@
    43 :> ("h" :> 44) @@ 44 :> << >> @@ 46 :> ("p" :> 47) @@
    47 :> ("t" :> 48) @@ 48 :> ("y" :> 49) @@ 49 :> << >> @@
    51 :> ("i" :> 60 @@ "a" :> 52 @@ "r" :> 66) @@ 52 :> ("l" :> 53) @@
    53 :> ("l" :> 54) @@ 54 :> ("b" :> 55) @@ 55 :> ("a" :> 56) @@
    56 :> ("c" :> 57) @@ 57 :> ("k" :> 58) @@ 58 :> << >> @@
    60 :> ("n" :> 61 @@ "x" :> 71) @@ 61 :> ("i" :> 62) @@
    62 :> ("s" :> 63) @@ 63 :> ("h" :> 64) @@ 64 :> << >> @@
    66 :> ("o" :> 67) @@ 67 :> ("m" :> 68) @@ 68 :> << >> @@
    71 :> ("e" :> 72) @@ 72 :> ("d" :> 73) @@ 73 :> << >> @@
    80 :> ("r" :> 81 @@ "i" :> 76) @@ 76 :> ("v" :> 77) @@
    77 :> ("e" :> 78) @@ 78 :> << >> @@ 81 :> ("o" :> 82) @@
    82 :> ("u" :> 83) @@ 83 :> ("p" :> 84) @@ 84 :> << >> @@
    85 :> ("e" :> 86 @@ "i" :> 176) @@ 86 :> ("t" :> 87) @@
    87 :> ("t" :> 88) @@ 88 :> ("e" :> 89) @@ 89 :> ("r" :> 90) @@
    90 :> << >> @@ 176 :> ("s" :> 177) @@ 177 :> ("t" :> 178) @@
    178 :> << >> @@ 92 :> ("u" :> 93 @@ "o" :> 96) @@ 93 :> ("m" :> 94) @@
    94 :> << >> @@ 96 :> ("n" :> 97) @@ 97 :> ("e" :> 98) @@ 98 :> << >> @@
    100 :> ("o" :> 101) @@ 101 :> << >> @@
    103 :> ("p" :> 104 @@ "t" :> 110) @@ 104 :> ("t" :> 105) @@
    105 :> ("i" :> 106) @@ 106 :> ("o" :> 107) @@ 107 :> ("n" :> 108) @@
    108 :> << >> @@ 110 :> ("h" :> 111) @@ 111 :> ("e" :> 112) @@
    112 :> ("r" :> 113) @@ 113 :> ("w" :> 114) @@ 114 :> ("i" :> 115) @@
    115 :> ("s" :> 116) @@ 116 :> ("e" :> 117) @@ 117 :> ("c" :> 200) @@
    200 :> ("h" :> 201) @@ 201 :> ("e" :> 202) @@ 202 :> ("c" :> 203) @@
    203 :> ("k" :> 204) @@ 204 :> << >> @@ 125 :> ("e" :> 126) @@
    126 :> ("a" :> 127) @@ 127 :> ("d" :> 128) @@ 128 :> << >> @@
    180 :> ("o" :> 181 @@ "i" :> 184) @@ 181 :> ("o" :> 182) @@
    182 :> ("l" :> 183) @@ 183 :> << >> @@ 184 :> ("g" :> 185) @@
    185 :> ("d" :> 186) @@ 186 :> ("e" :> 187) @@ 187 :> ("c" :> 188) @@
    188 :> ("i" :> 189) @@ 189 :> ("m" :> 190) @@ 190 :> ("a" :> 191) @@
    191 :> ("l" :> 192) @@ 192 :> << >>

accept_states ==
    5 :> "start" @@ 20 :> "check" @@ 28 :> "decimal" @@ 33 :> "define" @@
    39 :> "during" @@ 44 :> "each" @@ 49 :> "empty" @@ 58 :> "fallback" @@
    64 :> "finish" @@ 68 :> "from" @@ 73 :> "fixed" @@ 78 :> "give" @@
    84 :> "group" @@ 90 :> "letter" @@ 94 :> "num" @@ 98 :> "none" @@
    101 :> "No" @@ 108 :> "option" @@ 117 :> "otherwise" @@
    204 :> "otherwisecheck" @@ 128 :> "read" @@ 134 :> "select" @@
    139 :> "show" @@ 143 :> "skip" @@ 154 :> "stop" @@ 151 :> "step" @@
    159 :> "text" @@ 161 :> "to" @@ 171 :> "worldwide" @@ 175 :> "Yes" @@
    178 :> "list" @@ 183 :> "bool" @@ 192 :> "bigdecimal"

\* a walk that stops at the first accepting state
RECURSIVE DfaWalkFirst(_, _, _, _)
DfaWalkFirst(src, idx, state, last) ==
    IF /\ last = <<>>
       /\ idx < Len(src)
       /\ state \in DOMAIN transitions
       /\ src[idx + 1] \in DOMAIN transitions[state]
    THEN LET next_state == transitions[state][src[idx + 1]]
         IN  DfaWalkFirst(src, idx + 1, next_state,
                          IF next_state \in DOMAIN accept_states
                          THEN <<next_state, idx + 1>> ELSE last)
    ELSE last

\* the while loop of recognize_keyword: last is <<>> or <<state, idx>>
RECURSIVE DfaWalk(_, _, _, _)
DfaWalk(src, idx, state, last) ==
    IF /\ idx < Len(src)
       /\ state \in DOMAIN transitions
       /\ src[idx + 1] \in DOMAIN transitions[state]
    THEN LET next_state == transitions[state][src[idx + 1]]
         IN  DfaWalk(src, idx + 1, next_state,
                     IF next_state \in DOMAIN accept_states
                     THEN <<next_state, idx + 1>> ELSE last)
    ELSE last

\* (token_type, matched_text, end_idx); (None, None, start_idx) is
\* [type |-> None, text |-> <<>>, end |-> start_idx]
recognize_keyword(src, start_idx) ==
    LET last == DfaWalk(src, start_idx, 0, <<>>)
    IN  IF last # <<>>
        THEN [type |-> accept_states[last[1]],
              text |-> Slice(src, start_idx, last[2]),
              end |-> last[2]]
        ELSE [type |-> None, text |-> <<>>, end |-> start_idx]

-----------------------------------------------------------------------------
(* Lexer *)

\* identifiers are cut at 20 characters
MaxIdLen == 20
\* digits of an integer part, of a fraction, of a negative integer part
MaxIntDigits == 11
MaxDecDigits == 16
MaxNegIntDigits == 10

IdChars == LETTERNUM \cup {"_"}

Escapes == {"n", "t", "\\", "\"", "'"}

\* check_delimiter: the kinds that are never checked
skip_check ==
    {NEWLINE, WHITESPACE_SPACE, WHITESPACE_TAB, EOF, COMMENT_SINGLE,
     COMMENT_MULTI}

\* check_delimiter: the delimiter types that accept the end of input
eof_allowed_types == {}

\* a check that lets every token end the input
check_delimiter_eof(token_type, token_value, pos_end, current_char) ==
    IF token_type \in skip_check THEN <<>>
    ELSE IF token_type \notin DOMAIN TOKEN_DELIMITERS THEN <<>>
    ELSE IF current_char = None THEN <<>>
    ELSE IF token_type = "fallback"
    THEN IF current_char # ":"
         THEN <<LexicalError(pos_end, pos_end, "Expected \":\"")>>
         ELSE <<>>
    ELSE IF current_char \notin DELIM_SETS[TOKEN_DELIMITERS[token_type]]
    THEN <<LexicalError(pos_end, pos_end, "Invalid delimiter")>>
    ELSE <<>>

\* Lexer.check_delimiter with self.current_char passed in: <<>> for None,
\* <<error>> for a LexicalError
check_delimiter(token_type, token_value, pos_end, current_char) ==
    IF token_type \in skip_check THEN <<>>
    ELSE IF token_type \notin DOMAIN TOKEN_DELIMITERS THEN <<>>
    ELSE IF token_type = "fallback"
    THEN IF current_char # ":"
         THEN <<LexicalError(pos_end, pos_end, "Expected \":\"")>>
         ELSE <<>>
    ELSE IF current_char = None
    THEN IF TOKEN_DELIMITERS[token_type] \notin eof_allowed_types
         THEN <<LexicalError(pos_end, pos_end, "Invalid delimiter: EOF")>>
         ELSE <<>>
    ELSE IF current_char \notin DELIM_SETS[TOKEN_DELIMITERS[token_type]]
    THEN <<LexicalError(pos_end, pos_end, "Invalid delimiter")>>
    ELSE <<>>

\* Lexer.current_char
current_char == CharAt(source, pos.idx)

\* Lexer.peek(offset) with the cursor at p
peek(p, offset) == CharAt(source, p.idx + offset)

\* Lexer.advance with the cursor at p
Lexer_advance(p) == advance(p, CharAt(source, p.idx))

\* "while current_char != None and current_char in S and count < max":
\* the number of characters the loop consumes from offset i
RECURSIVE RunLen(_, _, _, _)
RunLen(src, i, S, max) ==
    IF max > 0 /\ i < Len(src) /\ src[i + 1] \in S
    THEN 1 + RunLen(src, i + 1, S, max - 1)
    ELSE 0

\* str.strip()
PyWhitespace == {" ", "\t", "\n", "\r", "\f"}

RECURSIVE Strip(_)
Strip(s) ==
    IF s = <<>> THEN s
    ELSE IF Head(s) \in PyWhitespace THEN Strip(Tail(s))
    ELSE IF s[Len(s)] \in PyWhitespace THEN Strip(SubSeq(s, 1, Len(s) - 1))
    ELSE s

\* the loop of the multi-line comment: the offset of the closing "~~", or
\* the length of the source when there is none
RECURSIVE FindClose(_, _)
FindClose(src, i) ==
    IF i >= Len(src) THEN Len(src)
    ELSE IF src[i + 1] = "~" /\ CharAt(src, i + 1) = "~" THEN i
    ELSE FindClose(src, i + 1)

\* the loop of the single-line comment: the offset of the next newline or
\* the length of the source
RECURSIVE FindNewline(_, _)
FindNewline(src, i) ==
    IF i >= Len(src) THEN Len(src)
    ELSE IF src[i + 1] = "\n" THEN i
    ELSE FindNewline(src, i + 1)

\* the loop of the string literal from offset i: where it stops (at the
\* closing quote or at the end) and string_val
RECURSIVE StringBody(_, _, _)
StringBody(src, i, val) ==
    LET c == CharAt(src, i)
    IN  IF c \in {None, "\""} THEN [idx |-> i, val |-> val]
        ELSE IF c = "\\"
        THEN IF CharAt(src, i + 1) \in Escapes
             THEN StringBody(src, i + 2, val \o <<"\\", CharAt(src, i + 1)>>)
             ELSE StringBody(src, i + 1, Append(val, "\\"))
        ELSE StringBody(src, i + 1, Append(val, c))

\* the list without the kinds of the blanks
UnaryContextNoBlanks ==
    {"=", "+=", "-=", "*=", "/=", "%=", "==", "!=", ">", "<", ">=", "<=",
     "&&", "||", "(", "[", ",", "+", "-", "*", "/", "%", "**",
     ";", "start", "{"}

\* the previous-token kinds after which "-" and a digit make a negative
\* literal
UnaryContext ==
    {"=", "+=", "-=", "*=", "/=", "%=", "==", "!=", ">", "<", ">=", "<=",
     "&&", "||", "(", "[", ",", "+", "-", "*", "/", "%", "**",
     NEWLINE, WHITESPACE_SPACE, WHITESPACE_TAB, ";", "start", "{"}

\* the locals of one loop iteration: where it began, the DFA's answer (in
\* the letter branch) and the token it built (when it built one)
Locals(dfa, token) == [start |-> pos.idx, dfa |-> dfa, token |-> token]

\* "tokens.append(token); continue" without a delimiter check
AppendToken(token, p) ==
    /\ pos' = p
    /\ tokens' = Append(tokens, token)
    /\ scan' = Locals(<<>>, <<token>>)
    /\ UNCHANGED <<source, errors, lexpc, calls, parservars, semvars>>

\* a delimiter error that is recorded without dropping the token
CheckAndAppendKeep(token, p, dfa) ==
    LET delim_error ==
            check_delimiter(token.type, token.value, p, CharAt(source, p.idx))
    IN  /\ pos' = p
        /\ errors' = errors \o delim_error
        /\ tokens' = Append(tokens, token)
        /\ scan' = Locals(dfa, <<token>>)
        /\ UNCHANGED <<source, lexpc, calls, parservars, semvars>>

\* "delim_error = self.check_delimiter(...); if delim_error:
\* errors.append(delim_error); continue; tokens.append(token); continue"
CheckAndAppend(token, p, dfa) ==
    LET delim_error ==
            check_delimiter(token.type, token.value, p, CharAt(source, p.idx))
    IN  /\ pos' = p
        /\ errors' = errors \o delim_error
        /\ tokens' = IF delim_error = <<>> THEN Append(tokens, token)
                     ELSE tokens
        /\ scan' = Locals(dfa, <<token>>)
        /\ UNCHANGED <<source, lexpc, calls, parservars, semvars>>

\* "errors.append(LexicalError(...)); continue" with the cursor at p
Fail(p, error, dfa) ==
    /\ pos' = p
    /\ errors' = Append(errors, error)
    /\ scan' = Locals(dfa, <<>>)
    /\ UNCHANGED <<source, tokens, lexpc, calls, parservars, semvars>>

\* whitespace
ScanWhitespace ==
    /\ lexpc = "scan"
    /\ current_char \in WHITESPACE
    /\ LET p == Lexer_advance(pos)
       IN  AppendToken(
               CASE current_char = "\n" ->
                        Token(NEWLINE, <<"n", "e", "w", "l", "i", "n", "e">>,
                              pos, p)
                 [] current_char = " " ->
                        Token(WHITESPACE_SPACE, <<"s", "p", "a", "c", "e">>,
                              pos, p)
                 [] current_char = "\t" ->
                        Token(WHITESPACE_TAB,
                              <<"W", "H", "I", "T", "E", "S", "P", "A", "C",
                                "E", "_", "T", "A", "B">>, pos, p), p)

\* comments, single-line and multi-line
ScanComment ==
    /\ lexpc = "scan"
    /\ current_char = "~"
    /\ IF peek(pos, 1) = "~"
       THEN LET close == FindClose(source, pos.idx + 2)
                found_closing == close < Len(source)
                comment_val == Slice(source, pos.idx + 2, close)
                pos_end == advanceN(source, pos,
                               IF found_closing THEN close + 2 - pos.idx
                               ELSE close - pos.idx)
            IN  IF ~found_closing
                THEN Fail(pos_end,
                          LexicalError(pos, pos_end,
                                       "Unterminated multi-line comment"),
                          <<>>)
                ELSE AppendToken(Token(COMMENT_MULTI, Strip(comment_val),
                                       pos, pos_end), pos_end)
       ELSE LET stop == FindNewline(source, pos.idx + 1)
                pos_end == advanceN(source, pos, stop - pos.idx)
            IN  AppendToken(Token(COMMENT_SINGLE,
                                  Strip(Slice(source, pos.idx + 1, stop)),
                                  pos, pos_end), pos_end)

\* a boundary test that looks for letters only
keyword_boundary_letters(next_char) ==
    next_char = None \/ next_char \notin LETTERS

\* "next_char is None or (next_char not in LETTERNUM and next_char != '_')"
keyword_boundary(next_char) ==
    next_char = None \/ (next_char \notin LETTERNUM /\ next_char # "_")

\* reserved word or identifier
ScanWord ==
    /\ lexpc = "scan"
    /\ current_char \in LETTERS
    /\ LET kw == recognize_keyword(source, pos.idx)
           next_char == CharAt(source, kw.end)
       IN  IF kw.type # None /\ keyword_boundary(next_char)
           THEN \* valid keyword match ('Yes' and 'No' take their text as
                \* their kind, which is the DFA's kind)
                LET pos_end == advanceN(source, pos, Len(kw.text))
                IN  CheckAndAppend(Token(kw.type, kw.text, pos, pos_end),
                                   pos_end, <<kw>>)
           ELSE \* not a keyword, treat as identifier
                LET char_count == RunLen(source, pos.idx, IdChars, MaxIdLen)
                    p == advanceN(source, pos, char_count)
                    id_str == Slice(source, pos.idx, p.idx)
                IN  IF char_count = MaxIdLen /\ CharAt(source, p.idx) \in IdChars
                    THEN Fail(p, LexicalError(pos, p, "Invalid delimiter"),
                              <<kw>>)
                    ELSE CheckAndAppend(Token(IDENTIFIER, id_str, pos, p), p,
                                        <<kw>>)

\* error for underscore
ScanUnderscore ==
    /\ lexpc = "scan"
    /\ current_char = "_"
    /\ LET p == Lexer_advance(pos)
       IN  Fail(p, LexicalError(pos, p, "Invalid character"), <<>>)

\* the fraction after a decimal point at p: .ddd with at most 16 digits;
\* head is the text before the point
ScanFraction(p, dfa) ==
    LET p1 == Lexer_advance(p)
        dec_dig_count == RunLen(source, p1.idx, NUM, MaxDecDigits)
        p2 == advanceN(source, p1, dec_dig_count)
        num_str == Slice(source, pos.idx, p2.idx)
    IN  IF dec_dig_count = MaxDecDigits /\ CharAt(source, p2.idx) \in NUM
        THEN Fail(p2, LexicalError(pos, p2, "Invalid delimiter"), dfa)
        ELSE CheckAndAppend(Token(LIT_DECIMAL, num_str, pos, p2), p2, dfa)

\* a rewind that goes back to the 0 itself
rewind_to_zero(pos_start) == pos_start

\* "self.pos = pos_start.copy(); self.pos.advance()": back to the digit
\* after the leading 0
rewind(pos_start) == advance(pos_start, None)

\* numbers
ScanNumber ==
    /\ lexpc = "scan"
    /\ current_char \in NUM \cup {"."}
    /\ current_char = "." => peek(pos, 1) \in NUM
    /\ IF current_char = "."
       THEN ScanFraction(pos, <<>>)
       ELSE LET int_dig_count == RunLen(source, pos.idx, NUM, MaxIntDigits)
                p == advanceN(source, pos, int_dig_count)
                num_str == Slice(source, pos.idx, p.idx)
            IN  IF Len(num_str) > 1 /\ num_str[1] = "0"
                THEN \* leading zero: rewind to the second digit
                     Fail(rewind(pos),
                          LexicalError(pos, pos, "Invalid delimiter after 0"),
                          <<>>)
                ELSE IF int_dig_count = MaxIntDigits
                        /\ CharAt(source, p.idx) \in NUM
                THEN Fail(p, LexicalError(pos, p, "Invalid delimiter"), <<>>)
                ELSE IF CharAt(source, p.idx) = "."
                THEN IF peek(p, 1) \in NUM
                     THEN ScanFraction(p, <<>>)
                     ELSE LET p1 == Lexer_advance(p)
                          IN  Fail(p1,
                                   LexicalError(pos, p1,
                                                "Invalid character: expected digit"),
                                   <<>>)
                ELSE CheckAndAppend(Token(LIT_NUMBER, num_str, pos, p), p,
                                    <<>>)

\* stringlit
ScanString ==
    /\ lexpc = "scan"
    /\ current_char = "\""
    /\ LET body == StringBody(source, pos.idx + 1, <<"\"">>)
           found_closing == CharAt(source, body.idx) = "\""
           pos_end == advanceN(source, pos,
                               IF found_closing THEN body.idx + 1 - pos.idx
                               ELSE body.idx - pos.idx)
       IN  IF ~found_closing
           THEN Fail(pos_end,
                     LexicalError(pos, pos_end, "Unterminated string literal"),
                     <<>>)
           ELSE CheckAndAppend(Token(LIT_STRING, Append(body.val, "\""),
                                     pos, pos_end), pos_end, <<>>)

\* charlit
ScanCharLit ==
    /\ lexpc = "scan"
    /\ current_char = "'"
    /\ LET p1 == Lexer_advance(pos)
           c1 == CharAt(source, p1.idx)
       IN  IF c1 = None
           THEN Fail(p1, LexicalError(pos, p1,
                                      "Unterminated character literal"), <<>>)
           ELSE IF c1 = "'"
           THEN \* the empty literal ''
                LET pos_end == Lexer_advance(p1)
                IN  CheckAndAppend(Token(LIT_CHARACTER, <<"'", "'">>, pos,
                                         pos_end), pos_end, <<>>)
           ELSE LET p2 == Lexer_advance(p1)
                    c2 == CharAt(source, p2.idx)
                    escaped == c1 = "\\"
                    \* the cursor and char_val before the closing quote
                    p3 == IF escaped THEN Lexer_advance(p2) ELSE p2
                    char_val == IF escaped THEN <<"'", "\\", c2>>
                                ELSE <<"'", c1>>
                IN  IF escaped /\ c2 \notin Escapes
                    THEN Fail(p2, LexicalError(pos, p2,
                                               "Invalid escape sequence"),
                              <<>>)
                    ELSE IF CharAt(source, p3.idx) # "'"
                    THEN Fail(p3,
                              LexicalError(pos, p3,
                                  "Invalid character: expected closing quote"),
                              <<>>)
                    ELSE LET pos_end == Lexer_advance(p3)
                         IN  CheckAndAppend(
                                 Token(LIT_CHARACTER, Append(char_val, "'"),
                                       pos, pos_end), pos_end, <<>>)

\* an operator token of kind type that ends at p
Operator(type, p) ==
    CheckAndAppend(Token(type, Slice(source, pos.idx, p.idx), pos, p), p,
                   <<>>)

\* '+', '+=', '++'
ScanPlus ==
    /\ lexpc = "scan"
    /\ current_char = "+"
    /\ LET p1 == Lexer_advance(pos)
           c == CharAt(source, p1.idx)
       IN  IF c = "=" THEN Operator("+=", Lexer_advance(p1))
           ELSE IF c = "+" THEN Operator("++", Lexer_advance(p1))
           ELSE Operator("+", p1)

\* a negative literal that starts with -0: only -0.ddd is a literal
ScanMinusZero(p1) ==
    LET p2 == Lexer_advance(p1)
        c == CharAt(source, p2.idx)
    IN  IF c = "." /\ peek(p2, 1) \in NUM
        THEN ScanFraction(p2, <<>>)
        ELSE IF c = "."
        THEN LET p3 == Lexer_advance(p2)
             IN  Fail(p3, LexicalError(pos, p3,
                                       "Invalid character after -0."), <<>>)
        ELSE Fail(p2, LexicalError(pos, p2, "Invalid character after -0"),
                  <<>>)

\* a negative literal that does not start with -0
ScanMinusNumber(p1) ==
    LET int_dig_count == RunLen(source, p1.idx, NUM, MaxNegIntDigits)
        p2 == advanceN(source, p1, int_dig_count)
        c == CharAt(source, p2.idx)
    IN  IF int_dig_count = MaxNegIntDigits /\ c \in NUM
        THEN Fail(p2, LexicalError(pos, p2, "Invalid delimiter"), <<>>)
        ELSE IF c = "."
        THEN IF peek(p2, 1) \in NUM
             THEN ScanFraction(p2, <<>>)
             ELSE LET p3 == Lexer_advance(p2)
                  IN  Fail(p3, LexicalError(pos, p3,
                                            "Invalid delimiter: expected digit"),
                           <<>>)
        ELSE CheckAndAppend(Token(LIT_NUMBER, Slice(source, pos.idx, p2.idx),
                                  pos, p2), p2, <<>>)

\* '-', '-=', '--' and the negative literals
ScanMinus ==
    /\ lexpc = "scan"
    /\ current_char = "-"
    /\ LET p1 == Lexer_advance(pos)
           c == CharAt(source, p1.idx)
           number_follows == IF c = "." THEN peek(p1, 1) \in NUM
                             ELSE c \in NUM
           unary == IF tokens = <<>> THEN TRUE
                    ELSE tokens[Len(tokens)].type \in UnaryContext
       IN  IF number_follows /\ unary
           THEN IF c = "0" THEN ScanMinusZero(p1) ELSE ScanMinusNumber(p1)
           ELSE IF c = "=" THEN Operator("-=", Lexer_advance(p1))
           ELSE IF c = "-" THEN Operator("--", Lexer_advance(p1))
           ELSE Operator("-", p1)

\* '*', '*=', '**', '**='
ScanStar ==
    /\ lexpc = "scan"
    /\ current_char = "*"
    /\ LET p1 == Lexer_advance(pos)
           c == CharAt(source, p1.idx)
           p2 == Lexer_advance(p1)
       IN  IF c = "*"
           THEN IF CharAt(source, p2.idx) = "="
                THEN Operator("**=", Lexer_advance(p2))
                ELSE Operator("**", p2)
           ELSE IF c = "=" THEN Operator("*=", p2)
           ELSE Operator("*", p1)

\* the operators that are one character or that character and '='
WithEquals ==
    "/" :> "/=" @@ "%" :> "%=" @@ "=" :> "==" @@ "!" :> "!=" @@
    ">" :> ">=" @@ "<" :> "<="

\* '/', '%', '=', '!', '>', '<' and their forms with '='
ScanOperator ==
    /\ lexpc = "scan"
    /\ current_char \in DOMAIN WithEquals
    /\ LET p1 == Lexer_advance(pos)
       IN  IF CharAt(source, p1.idx) = "="
           THEN Operator(WithEquals[current_char], Lexer_advance(p1))
           ELSE Operator(current_char, p1)

\* the operators that must be doubled
Doubled == "&" :> "&&" @@ "|" :> "||"

\* '&&' and '||'; a single '&' or '|' is an error
ScanLogical ==
    /\ lexpc = "scan"
    /\ current_char \in DOMAIN Doubled
    /\ LET p1 == Lexer_advance(pos)
       IN  IF CharAt(source, p1.idx) = current_char
           THEN Operator(Doubled[current_char], Lexer_advance(p1))
           ELSE Fail(p1, LexicalError(pos, p1, "Invalid character after"),
                     <<>>)

\* delimiters: one character, its own kind ('.' before a digit is a number)
ScanDelimiter ==
    /\ lexpc = "scan"
    /\ current_char \in {"(", ")", "[", "]", "{", "}", ";", ":", ",", "."}
    /\ current_char = "." => peek(pos, 1) \notin NUM
    /\ Operator(current_char, Lexer_advance(pos))

\* unrecognized char
ScanInvalid ==
    /\ lexpc = "scan"
    /\ current_char \notin
           WHITESPACE \cup LETTERS \cup NUM \cup DOMAIN WithEquals
           \cup DOMAIN Doubled
           \cup {None, "~", "_", "\"", "'", "+", "-", "*", "(", ")", "[",
                 "]", "{", "}", ";", ":", ",", "."}
    /\ LET p == Lexer_advance(pos)
       IN  Fail(p, LexicalError(pos, p, "Invalid character"), <<>>)

\* "Always append EOF at the end" and return
AppendEOF ==
    /\ lexpc = "scan"
    /\ current_char = None
    /\ tokens' = Append(tokens, Token(EOF, <<>>, pos, pos))
    /\ lexpc' = "done"
    /\ scan' = Locals(<<>>, <<>>)
    /\ UNCHANGED <<source, pos, errors, calls, parservars, semvars>>

-----------------------------------------------------------------------------
(* The source texts that are tokenized *)

Alphabet ==
    {"n", "0", "1", " ", "\n", "\t", "~", "_", ".", "\"", "'", "\\", "+",
     "-", "*", "/", "%", "=", "!", ">", "<", "&", "|", "(", ")", "[", "]",
     "{", "}", ";", ":", ",", "@"}

TailChars == {"n", "1", "_", " ", ";", "(", ":", "@"}

\* the texts over A of length at most n
RECURSIVE Texts(_, _)
Texts(A, n) ==
    IF n = 0 THEN {<<>>}
    ELSE LET S == Texts(A, n - 1)
         IN  S \cup {Append(s, c) : s \in {t \in S : Len(t) = n - 1}, c \in A}

Rep(c, k) == [i \in 1..k |-> c]

\* every non-empty prefix of every reserved word
Words ==
    UNION {{SubSeq(Chars[k], 1, n) : n \in 1..Len(Chars[k])} : k \in keywords}

RunHeads ==
    {<<>>, <<"-">>, <<".">>, <<"0">>, <<"1", ".">>, <<"-", "1", ".">>,
     <<"-", "0", ".">>, <<"\n">>}

\* "-1" after every character
MinusTexts == {<<c, "-", "1">> : c \in Alphabet}

\* a digit, an identifier character that is not a digit, and what follows
DigitLedTexts ==
    {<<d, c>> \o t : d \in {"0", "1"}, c \in {"n", "_"},
                     t \in Texts(TailChars, 1)}

Sources ==
    Texts(Alphabet, MaxLen)
    \cup MinusTexts
    \cup DigitLedTexts
    \cup {w \o t : w \in Words, t \in Texts(TailChars, MaxTail)}
    \cup {h \o Rep(c, k) \o t : h \in RunHeads, c \in {"n", "1"},
                                k \in 1..MaxRun, t \in Texts(TailChars, 1)}

-----------------------------------------------------------------------------
(* The lexer as a state machine: one step per iteration of the while loop *)

\* no SyntaxError has been raised
NoMessage == [text |-> "", found |-> "", expected |-> {}]

\* no TableDrivenParser has been constructed
ParserUnbuilt ==
    /\ order = 1
    /\ form = <<>>
    /\ derived = FALSE
    /\ parser_tokens = <<>>
    /\ parser_pos = 0
    /\ stack = <<>>
    /\ derivations = <<>>
    /\ step = 0
    /\ outcome = "unbuilt"
    /\ message = NoMessage

\* no SemanticAnalyzer has been constructed and no type helper called
AnalyzerIdle ==
    /\ analyzer = [status |-> "unbuilt"]
    /\ types = [fn |-> "", args |-> <<>>, result |-> ""]

LexInit ==
    /\ source \in Sources
    /\ pos = [idx |-> 0, ln |-> 0, col |-> 0]
    /\ tokens = <<>>
    /\ errors = <<>>
    /\ scan = [start |-> 0, dfa |-> <<>>, token |-> <<>>]
    /\ lexpc = "scan"
    /\ calls = <<>>
    /\ ParserUnbuilt
    /\ AnalyzerIdle

LexNext ==
    \/ ScanWhitespace
    \/ ScanComment
    \/ ScanWord
    \/ ScanUnderscore
    \/ ScanNumber
    \/ ScanString
    \/ ScanCharLit
    \/ ScanPlus
    \/ ScanMinus
    \/ ScanStar
    \/ ScanOperator
    \/ ScanLogical
    \/ ScanDelimiter
    \/ ScanInvalid
    \/ AppendEOF

SpecLex == LexInit /\ [][LexNext]_vars

-----------------------------------------------------------------------------
(* Properties of the lexer *)

\* the kinds that have a declared follow set and are checked against it
Checked(t) == t.type \notin skip_check /\ t.type \in DOMAIN TOKEN_DELIMITERS

\* the character right after token t is in the follow set of t's kind
Follows(t) ==
    LET c == CharAt(source, t.pos_end.idx)
    IN  /\ c # None
        /\ IF t.type = "fallback" THEN c = ":"
           ELSE c \in DELIM_SETS[TOKEN_DELIMITERS[t.type]]

\* C1: every appended token that is not whitespace, a newline, a comment or
\* EOF has a declared follow set, ends where its text ends, and is followed
\* in the source by a character of that set (':' for fallback); none of them
\* ends at the end of the input.
C1_FollowSet ==
    \A i \in 1..Len(tokens) :
        LET t == tokens[i]
        IN  t.type \notin skip_check =>
                /\ Checked(t)
                /\ t.value = Slice(source, t.pos_start.idx, t.pos_end.idx)
                /\ t.pos_end.idx < Len(source)
                /\ Follows(t)

\* C1 happens: a fallback token and the ':' after it have been appended
C1_Witness ==
    /\ \E i \in 1..Len(tokens) : tokens[i].type = "fallback"
    /\ \E i \in 1..Len(tokens) : tokens[i].type = ":"

\* C2: when the character after the token just scanned is not in the follow
\* set of its kind, the iteration appends exactly one error and no token, and
\* leaves the cursor right after the token's last character.
C2_Rejected ==
    [][(/\ lexpc = "scan"
        /\ scan'.token # <<>>
        /\ Checked(scan'.token[1])
        /\ ~Follows(scan'.token[1]))
       => LET t == scan'.token[1]
          IN  /\ Len(errors') = Len(errors) + 1
              /\ SubSeq(errors', 1, Len(errors)) = errors
              /\ tokens' = tokens
              /\ t.pos_start.idx = pos.idx
              /\ t.value = Slice(source, pos.idx, pos'.idx)
              /\ pos'.idx = pos.idx + Len(t.value)]_vars

\* C2 happens: the last iteration built an identifier, found a character
\* outside its follow set after it, and the next iteration starts there
C2_Witness ==
    /\ lexpc = "scan"
    /\ scan.token # <<>>
    /\ scan.token[1].type = IDENTIFIER
    /\ ~Follows(scan.token[1])
    /\ errors # <<>>
    /\ tokens = <<>>
    /\ pos.idx = Len(scan.token[1].value)
    /\ current_char = "@"

\* C3: every iteration of the loop leaves the cursor at a greater offset
\* that is still within the source, and the call returns exactly when the
\* source is consumed, so the loop ends after at most Len(source)
\* iterations; an error never ends the scan or drops an earlier error or
\* token; and what is returned holds one EOF token, the last one.
C3_Terminates ==
    /\ [][lexpc = "scan" =>
            /\ lexpc' = "scan" => pos'.idx > pos.idx
            /\ pos'.idx <= Len(source)
            /\ lexpc' = "done" <=> pos.idx = Len(source)
            /\ Len(errors') > Len(errors) => lexpc' = "scan"
            /\ SubSeq(errors', 1, Len(errors)) = errors
            /\ SubSeq(tokens', 1, Len(tokens)) = tokens]_vars
    /\ [](lexpc = "done" =>
            /\ tokens # <<>>
            /\ \A i \in 1..Len(tokens) :
                   tokens[i].type = EOF <=> i = Len(tokens)
            /\ pos.idx = Len(source))
    /\ [](lexpc = "scan" => \A i \in 1..Len(tokens) : tokens[i].type # EOF)

\* C3 happens: a call that rewound after a leading zero has returned
C3_Witness ==
    /\ lexpc = "done"
    /\ \E i \in 1..Len(errors) : errors[i].info = "Invalid delimiter after 0"
    /\ Len(tokens) > 1
    /\ tokens[Len(tokens)].type = EOF

\* the reserved words that are a prefix of src[i:]
KeywordsAt(src, i) ==
    {k \in keywords :
        /\ i + Len(Chars[k]) <= Len(src)
        /\ SubSeq(src, i + 1, i + Len(Chars[k])) = Chars[k]}

\* C4: recognize_keyword returns the longest reserved word that is a prefix
\* of the input at the start offset, with its kind, text and end offset, and
\* returns no match exactly when no reserved word is a prefix there.
C4_LongestKeyword ==
    scan.dfa # <<>> =>
        LET kw == scan.dfa[1]
            K == KeywordsAt(source, scan.start)
        IN  /\ kw.type = None <=> K = {}
            /\ kw.type = None => kw.text = <<>> /\ kw.end = scan.start
            /\ kw.type # None =>
                   /\ kw.type \in K
                   /\ \A j \in K : Len(Chars[j]) <= Len(Chars[kw.type])
                   /\ kw.text = Chars[kw.type]
                   /\ kw.end = scan.start + Len(kw.text)

\* C4 happens: at otherwisecheck, where otherwise is a prefix too, the
\* answer is otherwisecheck
C4_Witness ==
    /\ scan.dfa # <<>>
    /\ scan.dfa[1].type = "otherwisecheck"
    /\ "otherwise" \in KeywordsAt(source, scan.start)

\* the identifier characters that start at offset i
IdRun(src, i) == RunLen(src, i, IdChars, Len(src))

\* C5: an iteration whose DFA matched a reserved word builds the keyword
\* token only if the character after the match is not a letter, a digit or
\* an underscore; otherwise it builds no keyword token and, unless the run
\* is over-length, builds the identifier that is the whole run of
\* identifier characters from the same start.
C5_KeywordBoundary ==
    (scan.dfa # <<>> /\ scan.dfa[1].type # None) =>
        LET kw == scan.dfa[1]
            run == IdRun(source, scan.start)
        IN  IF CharAt(source, kw.end) \in IdChars
            THEN /\ scan.token # <<>> => scan.token[1].type = IDENTIFIER
                 /\ run <= MaxIdLen =>
                        /\ scan.token # <<>>
                        /\ scan.token[1].pos_start.idx = scan.start
                        /\ scan.token[1].value =
                               Slice(source, scan.start, scan.start + run)
                 /\ \A i \in 1..Len(tokens) :
                        tokens[i].pos_start.idx = scan.start =>
                            tokens[i].type = IDENTIFIER
            ELSE /\ scan.token # <<>>
                 /\ scan.token[1].type = kw.type
                 /\ scan.token[1].value = kw.text
                 /\ scan.token[1].pos_start.idx = scan.start

\* C5 happens: num1 is appended as one identifier though the DFA matched num
C5_Witness ==
    /\ scan.dfa # <<>>
    /\ scan.dfa[1].type = "num"
    /\ tokens # <<>>
    /\ tokens[Len(tokens)].type = IDENTIFIER
    /\ tokens[Len(tokens)].value = <<"n", "u", "m", "1">>

\* the offsets where a run of more than MaxIdLen identifier characters
\* begins with a letter
LongRuns ==
    {i \in 0..(Len(source) - 1) :
        /\ source[i + 1] \in LETTERS
        /\ i > 0 => source[i] \notin IdChars
        /\ IdRun(source, i) > MaxIdLen}

\* C6: a run of 21 or more identifier characters that starts with a letter
\* yields a LexicalError that starts at the run, and no identifier token
\* starts inside the run.
C6_OverLength ==
    \A r \in LongRuns :
        /\ lexpc = "done" =>
               \E i \in 1..Len(errors) : errors[i].pos_start.idx = r
        /\ \A i \in 1..Len(tokens) :
               tokens[i].type = IDENTIFIER =>
                   ~(r <= tokens[i].pos_start.idx
                     /\ tokens[i].pos_start.idx < r + IdRun(source, r))

-----------------------------------------------------------------------------
(* TableDrivenParser: the grammar *)

lambda == "λ"

productions ==
    ("<program>" :> <<<<"<group_part>">>>>
     @@ "<group_part>" :> <<<<"<group_definitions>", "<group_part>">>,
           <<"<worldwide_part>">>>>
     @@ "<worldwide_part>" :> <<<<"<global_variable_declarations>",
           "<worldwide_part>">>, <<"<define_part>">>>>
     @@ "<define_part>" :> <<<<"<function_definitions>", "<define_part>">>,
           <<"<start_block>">>>>
     @@ "<start_block>" :> <<<<"start", "{", "<statements>", "}", "finish">>>>
     @@ "<group_definitions>" :> <<<<"group", "identifier", "{",
           "<group_body>", "}">>>>
     @@ "<group_body>" :> <<<<"<group_member>", "<group_body_tail>">>,
           <<"λ">>>>
     @@ "<group_body_tail>" :> <<<<"<group_member>", "<group_body_tail>">>,
           <<"λ">>>>
     @@ "<group_member>" :> <<<<"<datatype>", "identifier", ";">>>>
     @@ "<datatype>" :> <<<<"num">>, <<"decimal">>, <<"bigdecimal">>,
           <<"bool">>, <<"text">>, <<"letter">>>>
     @@ "<global_variable_declarations>" :> <<<<"worldwide",
           "<global_modifier>", "<global_typed_decl>">>>>
     @@ "<global_modifier>" :> <<<<"fixed">>, <<"λ">>>>)
    @@
    ("<global_typed_decl>" :> <<<<"num", "identifier", "=", "<stmt_value>",
           ";">>, <<"decimal", "identifier", "=", "<stmt_value>", ";">>,
           <<"bigdecimal", "identifier", "=", "<stmt_value>", ";">>, <<"bool",
           "identifier", "=", "<stmt_value>", ";">>, <<"text", "identifier",
           "=", "<stmt_value>", ";">>, <<"letter", "identifier", "=",
           "<stmt_value>", ";">>>>
     @@ "<function_definitions>" :> <<<<"define", "<return_type>",
           "identifier", "(", "<parameter_list>", ")", "{",
           "<local_declarations>", "<statements>", "<optional_return>",
           "}">>>>
     @@ "<return_type>" :> <<<<"num">>, <<"decimal">>, <<"bigdecimal">>,
           <<"bool">>, <<"text">>, <<"letter">>, <<"empty">>>>
     @@ "<parameter_list>" :> <<<<"<parameter>", "<parameter_list_tail>">>,
           <<"λ">>>>
     @@ "<parameter_list_tail>" :> <<<<",", "<parameter>",
           "<parameter_list_tail>">>, <<"λ">>>>
     @@ "<parameter>" :> <<<<"<datatype>", "identifier">>>>
     @@ "<optional_return>" :> <<<<"give", "<return_tail>">>, <<"λ">>>>
     @@ "<return_tail>" :> <<<<"<stmt_value>", ";">>, <<";">>>>
     @@ "<local_declarations>" :> <<<<"<declaration>",
           "<local_declarations>">>, <<"λ">>>>
     @@ "<declaration>" :> <<<<"<local_declaration>">>,
           <<"<fixed_declaration>">>, <<"<list_declaration>">>>>
     @@ "<local_declaration>" :> <<<<"identifier", "identifier", ";">>,
           <<"num", "identifier", "=", "<stmt_value>", ";">>, <<"decimal",
           "identifier", "=", "<stmt_value>", ";">>, <<"bigdecimal",
           "identifier", "=", "<stmt_value>", ";">>, <<"bool", "identifier",
           "=", "<stmt_value>", ";">>, <<"text", "identifier", "=",
           "<stmt_value>", ";">>, <<"letter", "identifier", "=",
           "<stmt_value>", ";">>>>
     @@ "<fixed_declaration>" :> <<<<"fixed", "<fixed_typed_decl>">>>>)
    @@
    ("<fixed_typed_decl>" :> <<<<"num", "identifier", "=", "<stmt_value>",
           ";">>, <<"decimal", "identifier", "=", "<stmt_value>", ";">>,
           <<"bigdecimal", "identifier", "=", "<stmt_value>", ";">>, <<"bool",
           "identifier", "=", "<stmt_value>", ";">>, <<"text", "identifier",
           "=", "<stmt_value>", ";">>, <<"letter", "identifier", "=",
           "<stmt_value>", ";">>>>
     @@ "<list_declaration>" :> <<<<"list", "<list_typed_decl>">>>>
     @@ "<list_typed_decl>" :> <<<<"num", "identifier", "=", "<val_list>",
           ";">>, <<"decimal", "identifier", "=", "<val_list>", ";">>,
           <<"bigdecimal", "identifier", "=", "<val_list>", ";">>, <<"bool",
           "identifier", "=", "<val_list>", ";">>, <<"text", "identifier",
           "=", "<val_list>", ";">>, <<"letter", "identifier", "=",
           "<val_list>", ";">>>>
     @@ "<val_list>" :> <<<<"<val_list_1d>">>, <<"<val_list_2d>">>>>
     @@ "<val_list_1d>" :> <<<<"[", "<val_list_elems>", "]">>>>
     @@ "<val_list_elems>" :> <<<<"<arg_value>", "<val_list_tail>">>,
           <<"λ">>>>
     @@ "<val_list_tail>" :> <<<<",", "<arg_value>", "<val_list_tail>">>,
           <<"λ">>>>
     @@ "<val_list_2d>" :> <<<<"[", "<val_list_rows>", "]">>>>
     @@ "<val_list_rows>" :> <<<<"<val_list_1d>", "<val_list_rows_tail>">>,
           <<"λ">>>>
     @@ "<val_list_rows_tail>" :> <<<<",", "<val_list_1d>",
           "<val_list_rows_tail>">>, <<"λ">>>>
     @@ "<statements>" :> <<<<"<statement>", "<statements>">>, <<"λ">>>>
     @@ "<statement>" :> <<<<"<control_statement>">>,
           <<"<assignment_statement>">>, <<"<function_call_statement>">>,
           <<"<declaration>">>, <<"<io_statement>">>>>)
    @@
    ("<assignment_statement>" :> <<<<"<assignable>", "<assignment_tail>">>>>
     @@ "<assignment_tail>" :> <<<<"=", "<stmt_value>", ";">>, <<"+=",
           "<stmt_value>", ";">>, <<"-=", "<stmt_value>", ";">>, <<"*=",
           "<stmt_value>", ";">>, <<"/=", "<stmt_value>", ";">>, <<"%=",
           "<stmt_value>", ";">>, <<"**=", "<stmt_value>", ";">>, <<"++",
           ";">>, <<"--", ";">>>>
     @@ "<assignable>" :> <<<<"identifier", "<assignable_suffix>">>>>
     @@ "<assignable_suffix>" :> <<<<"[", "<index_value>", "]",
           "<assignable_2d>">>, <<".", "identifier">>, <<"λ">>>>
     @@ "<assignable_2d>" :> <<<<"[", "<index_value>", "]">>, <<"λ">>>>
     @@ "<function_call_statement>" :> <<<<"<function_call>", ";">>>>
     @@ "<function_call>" :> <<<<"identifier", "(", "<arg_list>", ")">>>>
     @@ "<arg_list>" :> <<<<"<arg_value>", "<arg_list_tail>">>, <<"λ">>>>
     @@ "<arg_list_tail>" :> <<<<",", "<arg_value>", "<arg_list_tail>">>,
           <<"λ">>>>
     @@ "<io_statement>" :> <<<<"show", "(", "<arg_list>", ")", ";">>,
           <<"read", "(", "identifier", ")", ";">>>>
     @@ "<control_statement>" :> <<<<"<check_structure>">>,
           <<"<select_statement>">>, <<"<iterative_statement>">>>>
     @@ "<check_structure>" :> <<<<"check", "(", "<cond_value>", ")", "{",
           "<statements>", "}", "<otherwise_chain>">>>>)
    @@
    ("<otherwise_chain>" :> <<<<"otherwisecheck", "(", "<cond_value>", ")",
           "{", "<statements>", "}", "<otherwise_chain>">>, <<"otherwise",
           "{", "<statements>", "}">>, <<"λ">>>>
     @@ "<select_statement>" :> <<<<"select", "(", "identifier", ")", "{",
           "<option_blocks>", "<optional_fallback>", "}">>>>
     @@ "<option_blocks>" :> <<<<"<option_block>", "<option_blocks>">>,
           <<"λ">>>>
     @@ "<option_block>" :> <<<<"option", "<literal>", ":", "<statements>",
           "<control_flow>", ";">>>>
     @@ "<control_flow>" :> <<<<"stop">>, <<"skip">>>>
     @@ "<optional_fallback>" :> <<<<"fallback", ":", "<statements>">>,
           <<"λ">>>>
     @@ "<iterative_statement>" :> <<<<"<each_loop>">>, <<"<during_loop>">>>>
     @@ "<each_loop>" :> <<<<"each", "identifier", "from", "<from_primary>",
           "to", "<to_primary>", "<step_clause>", "{", "<statements>",
           "}">>>>
     @@ "<step_clause>" :> <<<<"step", "<step_primary>">>, <<"λ">>>>
     @@ "<during_loop>" :> <<<<"during", "(", "<cond_value>", ")", "{",
           "<statements>", "}">>>>
     @@ "<literal>" :> <<<<"num_lit">>, <<"decimal_lit">>, <<"string_lit">>,
           <<"char_lit">>, <<"Yes">>, <<"No">>>>
     @@ "<stmt_value>" :> <<<<"<stmt_or>">>>>)
    @@
    ("<stmt_or>" :> <<<<"<stmt_and>", "<stmt_or_tail>">>>>
     @@ "<stmt_or_tail>" :> <<<<"||", "<stmt_and>", "<stmt_or_tail>">>,
           <<"λ">>>>
     @@ "<stmt_and>" :> <<<<"<stmt_eq>", "<stmt_and_tail>">>>>
     @@ "<stmt_and_tail>" :> <<<<"&&", "<stmt_eq>", "<stmt_and_tail>">>,
           <<"λ">>>>
     @@ "<stmt_eq>" :> <<<<"<stmt_rel>", "<stmt_eq_tail>">>>>
     @@ "<stmt_eq_tail>" :> <<<<"==", "<stmt_rel>", "<stmt_eq_tail>">>,
           <<"!=", "<stmt_rel>", "<stmt_eq_tail>">>, <<"λ">>>>
     @@ "<stmt_rel>" :> <<<<"<stmt_add>", "<stmt_rel_tail>">>>>
     @@ "<stmt_rel_tail>" :> <<<<">", "<stmt_add>">>, <<"<", "<stmt_add>">>,
           <<">=", "<stmt_add>">>, <<"<=", "<stmt_add>">>, <<"λ">>>>
     @@ "<stmt_add>" :> <<<<"<stmt_mult>", "<stmt_add_tail>">>>>
     @@ "<stmt_add_tail>" :> <<<<"+", "<stmt_mult>", "<stmt_add_tail>">>,
           <<"-", "<stmt_mult>", "<stmt_add_tail>">>, <<"λ">>>>
     @@ "<stmt_mult>" :> <<<<"<stmt_exp>", "<stmt_mult_tail>">>>>
     @@ "<stmt_mult_tail>" :> <<<<"*", "<stmt_exp>", "<stmt_mult_tail>">>,
           <<"/", "<stmt_exp>", "<stmt_mult_tail>">>, <<"%", "<stmt_exp>",
           "<stmt_mult_tail>">>, <<"λ">>>>)
    @@
    ("<stmt_exp>" :> <<<<"<stmt_unary>", "<stmt_exp_tail>">>>>
     @@ "<stmt_exp_tail>" :> <<<<"**", "<stmt_exp>">>, <<"λ">>>>
     @@ "<stmt_unary>" :> <<<<"-", "<stmt_post>">>, <<"!", "<stmt_post>">>,
           <<"<stmt_post>">>>>
     @@ "<stmt_post>" :> <<<<"<stmt_prim>">>>>
     @@ "<stmt_prim>" :> <<<<"(", "<stmt_value>", ")">>, <<"<literal>">>,
           <<"identifier", "<stmt_id_suffix>">>, <<"<size_call>">>>>
     @@ "<stmt_id_suffix>" :> <<<<"(", "<arg_list>", ")">>, <<"[",
           "<index_value>", "]", "<stmt_var_2d>">>, <<".", "identifier">>,
           <<"λ">>>>
     @@ "<stmt_var_2d>" :> <<<<"[", "<index_value>", "]">>, <<"λ">>>>
     @@ "<arg_value>" :> <<<<"<arg_or>">>>>
     @@ "<arg_or>" :> <<<<"<arg_and>", "<arg_or_tail>">>>>
     @@ "<arg_or_tail>" :> <<<<"||", "<arg_and>", "<arg_or_tail>">>, <<"λ">>>>
     @@ "<arg_and>" :> <<<<"<arg_eq>", "<arg_and_tail>">>>>
     @@ "<arg_and_tail>" :> <<<<"&&", "<arg_eq>", "<arg_and_tail>">>,
           <<"λ">>>>)
    @@
    ("<arg_eq>" :> <<<<"<arg_rel>", "<arg_eq_tail>">>>>
     @@ "<arg_eq_tail>" :> <<<<"==", "<arg_rel>", "<arg_eq_tail>">>, <<"!=",
           "<arg_rel>", "<arg_eq_tail>">>, <<"λ">>>>
     @@ "<arg_rel>" :> <<<<"<arg_add>", "<arg_rel_tail>">>>>
     @@ "<arg_rel_tail>" :> <<<<">", "<arg_add>">>, <<"<", "<arg_add>">>,
           <<">=", "<arg_add>">>, <<"<=", "<arg_add>">>, <<"λ">>>>
     @@ "<arg_add>" :> <<<<"<arg_mult>", "<arg_add_tail>">>>>
     @@ "<arg_add_tail>" :> <<<<"+", "<arg_mult>", "<arg_add_tail>">>, <<"-",
           "<arg_mult>", "<arg_add_tail>">>, <<"λ">>>>
     @@ "<arg_mult>" :> <<<<"<arg_exp>", "<arg_mult_tail>">>>>
     @@ "<arg_mult_tail>" :> <<<<"*", "<arg_exp>", "<arg_mult_tail>">>, <<"/",
           "<arg_exp>", "<arg_mult_tail>">>, <<"%", "<arg_exp>",
           "<arg_mult_tail>">>, <<"λ">>>>
     @@ "<arg_exp>" :> <<<<"<arg_unary>", "<arg_exp_tail>">>>>
     @@ "<arg_exp_tail>" :> <<<<"**", "<arg_exp>">>, <<"λ">>>>
     @@ "<arg_unary>" :> <<<<"-", "<arg_post>">>, <<"!", "<arg_post>">>,
           <<"<arg_post>">>>>
     @@ "<arg_post>" :> <<<<"<arg_prim>">>>>)
    @@
    ("<arg_prim>" :> <<<<"(", "<arg_value>", ")">>, <<"<literal>">>,
           <<"identifier", "<arg_id_suffix>">>, <<"<size_call>">>>>
     @@ "<arg_id_suffix>" :> <<<<"(", "<arg_list>", ")">>, <<"[",
           "<index_value>", "]", "<arg_var_2d>">>, <<".", "identifier">>,
           <<"λ">>>>
     @@ "<arg_var_2d>" :> <<<<"[", "<index_value>", "]">>, <<"λ">>>>
     @@ "<cond_value>" :> <<<<"<cond_or>">>>>
     @@ "<cond_or>" :> <<<<"<cond_and>", "<cond_or_tail>">>>>
     @@ "<cond_or_tail>" :> <<<<"||", "<cond_and>", "<cond_or_tail>">>,
           <<"λ">>>>
     @@ "<cond_and>" :> <<<<"<cond_eq>", "<cond_and_tail>">>>>
     @@ "<cond_and_tail>" :> <<<<"&&", "<cond_eq>", "<cond_and_tail>">>,
           <<"λ">>>>
     @@ "<cond_eq>" :> <<<<"<cond_comp>", "<cond_eq_tail>">>>>
     @@ "<cond_eq_tail>" :> <<<<"==", "<cond_comp>", "<cond_eq_tail>">>,
           <<"!=", "<cond_comp>", "<cond_eq_tail>">>, <<"λ">>>>
     @@ "<cond_comp>" :> <<<<"<cond_unary>">>>>
     @@ "<cond_unary>" :> <<<<"!", "<cond_base>">>, <<"<cond_base>">>>>)
    @@
    ("<cond_base>" :> <<<<"Yes">>, <<"No">>, <<"(", "<cond_inner_paren>">>,
           <<"<cond_arith_noparen>", "<cond_rel_tail>">>, <<"string_lit",
           "<cond_str_tail>">>, <<"char_lit", "<cond_str_tail>">>>>
     @@ "<cond_str_tail>" :> <<<<"==", "<cond_eq_rhs>">>, <<"!=",
           "<cond_eq_rhs>">>>>
     @@ "<cond_paren_tail>" :> <<<<")", "<cond_rel_tail>">>,
           <<"<cond_rel_tail_in_paren>", "<cond_and_tail_ip>",
           "<cond_or_tail_ip>", ")">>>>
     @@ "<cond_rel_tail_in_paren>" :> <<<<">", "<cond_arith_no_rel>">>, <<"<",
           "<cond_arith_no_rel>">>, <<">=", "<cond_arith_no_rel>">>, <<"<=",
           "<cond_arith_no_rel>">>, <<"==", "<cond_eq_rhs>">>, <<"!=",
           "<cond_eq_rhs>">>>>
     @@ "<cond_inner_paren>" :> <<<<"<cond_arith>", "<cond_paren_tail>">>,
           <<"!", "<cond_comparison_ip>", "<cond_and_tail_ip>",
           "<cond_or_tail_ip>", ")">>, <<"Yes", "<cond_and_tail_ip>",
           "<cond_or_tail_ip>", ")">>, <<"No", "<cond_and_tail_ip>",
           "<cond_or_tail_ip>", ")">>, <<"string_lit", "<cond_str_tail>",
           "<cond_and_tail_ip>", "<cond_or_tail_ip>", ")">>, <<"char_lit",
           "<cond_str_tail>", "<cond_and_tail_ip>", "<cond_or_tail_ip>",
           ")">>>>
     @@ "<cond_and_tail_ip>" :> <<<<"&&", "<cond_comparison_ip>",
           "<cond_and_tail_ip>">>, <<"λ">>>>
     @@ "<cond_or_tail_ip>" :> <<<<"||", "<cond_and_ip>",
           "<cond_or_tail_ip>">>, <<"λ">>>>
     @@ "<cond_and_ip>" :> <<<<"<cond_comparison_ip>",
           "<cond_and_tail_ip>">>>>
     @@ "<cond_comparison_ip>" :> <<<<"<cond_arith_noparen>",
           "<cond_rel_tail_in_paren>">>, <<"(", "<cond_arith>",
           "<cond_paren_tail_ip>">>, <<"!", "<cond_comparison_ip>">>,
           <<"Yes">>, <<"No">>, <<"string_lit", "<cond_str_tail>">>,
           <<"char_lit", "<cond_str_tail>">>>>
     @@ "<cond_paren_tail_ip>" :> <<<<")", "<cond_rel_tail_in_paren>">>,
           <<"<cond_rel_tail_in_paren>", "<cond_and_tail_ip>",
           "<cond_or_tail_ip>", ")">>>>
     @@ "<cond_rel_tail>" :> <<<<">", "<cond_arith_no_rel>">>, <<"<",
           "<cond_arith_no_rel>">>, <<">=", "<cond_arith_no_rel>">>, <<"<=",
           "<cond_arith_no_rel>">>, <<"==", "<cond_eq_rhs>">>, <<"!=",
           "<cond_eq_rhs>">>>>
     @@ "<cond_eq_rhs>" :> <<<<"Yes">>, <<"No">>, <<"<cond_arith_no_rel>">>,
           <<"string_lit">>, <<"char_lit">>>>)
    @@
    ("<cond_arith_no_rel>" :> <<<<"<cond_add_no_rel>">>>>
     @@ "<cond_add_no_rel>" :> <<<<"<cond_mult_no_rel>",
           "<cond_add_tail_no_rel>">>>>
     @@ "<cond_add_tail_no_rel>" :> <<<<"+", "<cond_mult_no_rel>",
           "<cond_add_tail_no_rel>">>, <<"-", "<cond_mult_no_rel>",
           "<cond_add_tail_no_rel>">>, <<"λ">>>>
     @@ "<cond_mult_no_rel>" :> <<<<"<cond_exp_no_rel>",
           "<cond_mult_tail_no_rel>">>>>
     @@ "<cond_mult_tail_no_rel>" :> <<<<"*", "<cond_exp_no_rel>",
           "<cond_mult_tail_no_rel>">>, <<"/", "<cond_exp_no_rel>",
           "<cond_mult_tail_no_rel>">>, <<"%", "<cond_exp_no_rel>",
           "<cond_mult_tail_no_rel>">>, <<"λ">>>>
     @@ "<cond_exp_no_rel>" :> <<<<"<cond_arith_unary_no_rel>",
           "<cond_exp_tail_no_rel>">>>>
     @@ "<cond_exp_tail_no_rel>" :> <<<<"**", "<cond_exp_no_rel>">>, <<"λ">>>>
     @@ "<cond_arith_unary_no_rel>" :> <<<<"-", "<cond_post_no_rel>">>,
           <<"<cond_post_no_rel>">>>>
     @@ "<cond_post_no_rel>" :> <<<<"<cond_prim_no_rel>">>>>
     @@ "<cond_prim_no_rel>" :> <<<<"(", "<cond_arith_no_rel>", ")">>,
           <<"num_lit">>, <<"decimal_lit">>, <<"identifier",
           "<cond_id_suffix_no_rel>">>, <<"<size_call>">>>>
     @@ "<cond_id_suffix_no_rel>" :> <<<<"(", "<arg_list>", ")">>, <<"[",
           "<index_value>", "]", "<cond_var_2d_no_rel>">>, <<".",
           "identifier">>, <<"λ">>>>
     @@ "<cond_var_2d_no_rel>" :> <<<<"[", "<index_value>", "]">>, <<"λ">>>>)
    @@
    ("<cond_arith_noparen>" :> <<<<"<cond_add_noparen>">>>>
     @@ "<cond_add_noparen>" :> <<<<"<cond_mult_noparen>",
           "<cond_add_tail>">>>>
     @@ "<cond_mult_noparen>" :> <<<<"<cond_exp_noparen>",
           "<cond_mult_tail>">>>>
     @@ "<cond_exp_noparen>" :> <<<<"<cond_unary_noparen>",
           "<cond_exp_tail>">>>>
     @@ "<cond_unary_noparen>" :> <<<<"-", "<cond_post>">>,
           <<"<cond_prim_noparen>">>>>
     @@ "<cond_prim_noparen>" :> <<<<"num_lit">>, <<"decimal_lit">>,
           <<"identifier", "<cond_id_suffix>">>, <<"<size_call>">>>>
     @@ "<cond_arith>" :> <<<<"<cond_add>">>>>
     @@ "<cond_add>" :> <<<<"<cond_mult>", "<cond_add_tail>">>>>
     @@ "<cond_add_tail>" :> <<<<"+", "<cond_mult>", "<cond_add_tail>">>,
           <<"-", "<cond_mult>", "<cond_add_tail>">>, <<"λ">>>>
     @@ "<cond_mult>" :> <<<<"<cond_exp>", "<cond_mult_tail>">>>>
     @@ "<cond_mult_tail>" :> <<<<"*", "<cond_exp>", "<cond_mult_tail>">>,
           <<"/", "<cond_exp>", "<cond_mult_tail>">>, <<"%", "<cond_exp>",
           "<cond_mult_tail>">>, <<"λ">>>>
     @@ "<cond_exp>" :> <<<<"<cond_arith_unary>", "<cond_exp_tail>">>>>)
    @@
    ("<cond_exp_tail>" :> <<<<"**", "<cond_exp>">>, <<"λ">>>>
     @@ "<cond_arith_unary>" :> <<<<"-", "<cond_post>">>, <<"<cond_post>">>>>
     @@ "<cond_post>" :> <<<<"<cond_prim>">>>>
     @@ "<cond_prim>" :> <<<<"(", "<cond_arith>", ")">>, <<"num_lit">>,
           <<"decimal_lit">>, <<"identifier", "<cond_id_suffix>">>,
           <<"<size_call>">>>>
     @@ "<cond_id_suffix>" :> <<<<"(", "<arg_list>", ")">>, <<"[",
           "<index_value>", "]", "<cond_var_2d>">>, <<".", "identifier">>,
           <<"λ">>>>
     @@ "<cond_var_2d>" :> <<<<"[", "<index_value>", "]">>, <<"λ">>>>
     @@ "<index_value>" :> <<<<"<index_add>">>>>
     @@ "<index_add>" :> <<<<"<index_mult>", "<index_add_tail>">>>>
     @@ "<index_add_tail>" :> <<<<"+", "<index_mult>", "<index_add_tail>">>,
           <<"-", "<index_mult>", "<index_add_tail>">>, <<"λ">>>>
     @@ "<index_mult>" :> <<<<"<index_exp>", "<index_mult_tail>">>>>
     @@ "<index_mult_tail>" :> <<<<"*", "<index_exp>", "<index_mult_tail>">>,
           <<"/", "<index_exp>", "<index_mult_tail>">>, <<"%", "<index_exp>",
           "<index_mult_tail>">>, <<"λ">>>>
     @@ "<index_exp>" :> <<<<"<index_unary>", "<index_exp_tail>">>>>)
    @@
    ("<index_exp_tail>" :> <<<<"**", "<index_exp>">>, <<"λ">>>>
     @@ "<index_unary>" :> <<<<"-", "<index_post>">>, <<"<index_post>">>>>
     @@ "<index_post>" :> <<<<"<index_prim>">>>>
     @@ "<index_prim>" :> <<<<"(", "<index_value>", ")">>, <<"num_lit">>,
           <<"decimal_lit">>, <<"identifier", "<index_id_suffix>">>,
           <<"<size_call>">>>>
     @@ "<index_id_suffix>" :> <<<<"(", "<arg_list>", ")">>, <<"[",
           "<index_value>", "]", "<index_var_2d>">>, <<".", "identifier">>,
           <<"λ">>>>
     @@ "<index_var_2d>" :> <<<<"[", "<index_value>", "]">>, <<"λ">>>>
     @@ "<from_primary>" :> <<<<"num_lit">>, <<"decimal_lit">>,
           <<"identifier", "<from_id_suffix>">>, <<"<size_call>">>>>
     @@ "<from_id_suffix>" :> <<<<"(", "<arg_list>", ")">>, <<"[",
           "<index_value>", "]", "<from_var_2d>">>, <<".", "identifier">>,
           <<"λ">>>>
     @@ "<from_var_2d>" :> <<<<"[", "<index_value>", "]">>, <<"λ">>>>
     @@ "<to_primary>" :> <<<<"num_lit">>, <<"decimal_lit">>, <<"identifier",
           "<to_id_suffix>">>, <<"<size_call>">>>>
     @@ "<to_id_suffix>" :> <<<<"(", "<arg_list>", ")">>, <<"[",
           "<index_value>", "]", "<to_var_2d>">>, <<".", "identifier">>,
           <<"λ">>>>
     @@ "<to_var_2d>" :> <<<<"[", "<index_value>", "]">>, <<"λ">>>>)
    @@
    ("<step_primary>" :> <<<<"num_lit">>, <<"decimal_lit">>, <<"identifier",
           "<step_id_suffix>">>, <<"<size_call>">>>>
     @@ "<step_id_suffix>" :> <<<<"(", "<arg_list>", ")">>, <<"[",
           "<index_value>", "]", "<step_var_2d>">>, <<".", "identifier">>,
           <<"λ">>>>
     @@ "<step_var_2d>" :> <<<<"[", "<index_value>", "]">>, <<"λ">>>>
     @@ "<size_call>" :> <<<<"size", "(", "identifier", "<size_second_arg>",
           ")">>>>
     @@ "<size_second_arg>" :> <<<<",", "num_lit">>, <<"λ">>>>)

\* _extract_terminals with self.productions = prods
extract_terminals(prods) ==
    {symbol \in UNION {UNION {{prod[j] : j \in 1..Len(prod)} :
                                 prod \in {prods[nt][i] :
                                               i \in 1..Len(prods[nt])}} :
                          nt \in DOMAIN prods} :
        symbol \notin DOMAIN prods /\ symbol # lambda}
    \cup {"$"}

\* _init_grammar: self.productions, self.non_terminals, self.terminals
init_grammar(prods) ==
    [productions |-> prods, non_terminals |-> DOMAIN prods,
     terminals |-> extract_terminals(prods)]

non_terminals == DOMAIN productions

terminals == extract_terminals(productions)

-----------------------------------------------------------------------------
(* TableDrivenParser: FIRST, FOLLOW and the parsing table *)

\* the orders in which a run iterates over its sets (Python leaves the
\* order of a set of strings to the hash seed of the run): order 1 is the
\* order below, order 2 is its reverse
Orders == {1, 2}

\* two more orders, in which parsers are built but not run: order 3 takes
\* the odd places of the order below and then the even ones, order 4 takes
\* its second half and then its first half
OtherOrders == {3, 4}

Reverse(s) == [i \in 1..Len(s) |-> s[Len(s) + 1 - i]]

\* the sequence s in the iteration order o
Permute(s, o) ==
    LET n == Len(s)
        odd == (n + 1) \div 2
        half == n \div 2
    IN  IF o = 1 THEN s
        ELSE IF o = 2 THEN Reverse(s)
        ELSE IF o = 3
        THEN [i \in 1..n |-> IF i <= odd THEN s[2 * i - 1]
                             ELSE s[2 * (i - odd)]]
        ELSE [i \in 1..n |-> IF i <= n - half THEN s[half + i]
                             ELSE s[i - (n - half)]]

\* the keys of self.productions as written
GrammarOrder ==
    <<"<program>", "<group_part>", "<worldwide_part>", "<define_part>",
      "<start_block>", "<group_definitions>", "<group_body>",
      "<group_body_tail>", "<group_member>", "<datatype>",
      "<global_variable_declarations>", "<global_modifier>",
      "<global_typed_decl>", "<function_definitions>", "<return_type>",
      "<parameter_list>", "<parameter_list_tail>", "<parameter>",
      "<optional_return>", "<return_tail>", "<local_declarations>",
      "<declaration>", "<local_declaration>", "<fixed_declaration>",
      "<fixed_typed_decl>", "<list_declaration>", "<list_typed_decl>",
      "<val_list>", "<val_list_1d>", "<val_list_elems>", "<val_list_tail>",
      "<val_list_2d>", "<val_list_rows>", "<val_list_rows_tail>",
      "<statements>", "<statement>", "<assignment_statement>",
      "<assignment_tail>", "<assignable>", "<assignable_suffix>",
      "<assignable_2d>", "<function_call_statement>", "<function_call>",
      "<arg_list>", "<arg_list_tail>", "<io_statement>",
      "<control_statement>", "<check_structure>", "<otherwise_chain>",
      "<select_statement>", "<option_blocks>", "<option_block>",
      "<control_flow>", "<optional_fallback>", "<iterative_statement>",
      "<each_loop>", "<step_clause>", "<during_loop>", "<literal>",
      "<stmt_value>", "<stmt_or>", "<stmt_or_tail>", "<stmt_and>",
      "<stmt_and_tail>", "<stmt_eq>", "<stmt_eq_tail>", "<stmt_rel>",
      "<stmt_rel_tail>", "<stmt_add>", "<stmt_add_tail>", "<stmt_mult>",
      "<stmt_mult_tail>", "<stmt_exp>", "<stmt_exp_tail>", "<stmt_unary>",
      "<stmt_post>", "<stmt_prim>", "<stmt_id_suffix>", "<stmt_var_2d>",
      "<arg_value>", "<arg_or>", "<arg_or_tail>", "<arg_and>",
      "<arg_and_tail>", "<arg_eq>", "<arg_eq_tail>", "<arg_rel>",
      "<arg_rel_tail>", "<arg_add>", "<arg_add_tail>", "<arg_mult>",
      "<arg_mult_tail>", "<arg_exp>", "<arg_exp_tail>", "<arg_unary>",
      "<arg_post>", "<arg_prim>", "<arg_id_suffix>", "<arg_var_2d>",
      "<cond_value>", "<cond_or>", "<cond_or_tail>", "<cond_and>",
      "<cond_and_tail>", "<cond_eq>", "<cond_eq_tail>", "<cond_comp>",
      "<cond_unary>", "<cond_base>", "<cond_str_tail>", "<cond_paren_tail>",
      "<cond_rel_tail_in_paren>", "<cond_inner_paren>", "<cond_and_tail_ip>",
      "<cond_or_tail_ip>", "<cond_and_ip>", "<cond_comparison_ip>",
      "<cond_paren_tail_ip>", "<cond_rel_tail>", "<cond_eq_rhs>",
      "<cond_arith_no_rel>", "<cond_add_no_rel>", "<cond_add_tail_no_rel>",
      "<cond_mult_no_rel>", "<cond_mult_tail_no_rel>", "<cond_exp_no_rel>",
      "<cond_exp_tail_no_rel>", "<cond_arith_unary_no_rel>",
      "<cond_post_no_rel>", "<cond_prim_no_rel>", "<cond_id_suffix_no_rel>",
      "<cond_var_2d_no_rel>", "<cond_arith_noparen>", "<cond_add_noparen>",
      "<cond_mult_noparen>", "<cond_exp_noparen>", "<cond_unary_noparen>",
      "<cond_prim_noparen>", "<cond_arith>", "<cond_add>", "<cond_add_tail>",
      "<cond_mult>", "<cond_mult_tail>", "<cond_exp>", "<cond_exp_tail>",
      "<cond_arith_unary>", "<cond_post>", "<cond_prim>", "<cond_id_suffix>",
      "<cond_var_2d>", "<index_value>", "<index_add>", "<index_add_tail>",
      "<index_mult>", "<index_mult_tail>", "<index_exp>", "<index_exp_tail>",
      "<index_unary>", "<index_post>", "<index_prim>", "<index_id_suffix>",
      "<index_var_2d>", "<from_primary>", "<from_id_suffix>",
      "<from_var_2d>", "<to_primary>", "<to_id_suffix>", "<to_var_2d>",
      "<step_primary>", "<step_id_suffix>", "<step_var_2d>", "<size_call>",
      "<size_second_arg>">>

\* the terminals in the order in which self.productions first names them,
\* the end marker last
TerminalOrder ==
    <<"start", "{", "}", "finish", "group", "identifier", ";", "num",
      "decimal", "bigdecimal", "bool", "text", "letter", "worldwide",
      "fixed", "=", "define", "(", ")", "empty", ",", "give", "list", "[",
      "]", "+=", "-=", "*=", "/=", "%=", "**=", "++", "--", ".", "show",
      "read", "check", "otherwisecheck", "otherwise", "select", "option",
      ":", "stop", "skip", "fallback", "each", "from", "to", "step",
      "during", "num_lit", "decimal_lit", "string_lit", "char_lit", "Yes",
      "No", "||", "&&", "==", "!=", ">", "<", ">=", "<=", "+", "-", "*",
      "/", "%", "**", "!", "size", "$">>

\* the elements of the sequence s that are in S, in the order of s
InSet(s, S) ==
    LET kept == {i \in 1..Len(s) : s[i] \in S}
    IN  [k \in 1..Cardinality(kept) |->
            s[CHOOSE i \in kept :
                  Cardinality({j \in kept : j < i}) = k - 1]]

\* "for nt in self.non_terminals" in a run with iteration order o
IterNonTerminals(o) == Permute(GrammarOrder, o)

\* "for terminal in S" in a run with iteration order o
IterTerminals(S, o) == InSet(Permute(TerminalOrder, o), S)

\* _first_of_sequence(sequence) with self.first = first
RECURSIVE first_of_sequence(_, _, _)
first_of_sequence(self, first, sequence) ==
    IF sequence = <<>> THEN {lambda}
    ELSE LET symbol == Head(sequence)
         IN  IF symbol = lambda THEN {lambda}
             ELSE IF symbol \in self.terminals THEN {symbol}
             ELSE IF lambda \notin first[symbol] THEN first[symbol]
             ELSE (first[symbol] \ {lambda})
                  \cup first_of_sequence(self, first, Tail(sequence))

\* _compute_first_sets: "for production in self.productions[nt]" from the
\* i-th production on, with self.first = sets; the result is the value of
\* changed and of self.first after the loop
RECURSIVE first_productions(_, _, _, _)
first_productions(self, sets, nt, i) ==
    IF i > Len(self.productions[nt]) THEN [changed |-> FALSE, sets |-> sets]
    ELSE LET old_size == Cardinality(sets[nt])
             first_of_prod ==
                 first_of_sequence(self, sets, self.productions[nt][i])
             updated == sets[nt] \cup first_of_prod
             rest == first_productions(self, [sets EXCEPT ![nt] = updated],
                                       nt, i + 1)
         IN  [changed |-> Cardinality(updated) > old_size \/ rest.changed,
              sets |-> rest.sets]

\* _compute_first_sets: "for nt in self.non_terminals" over nts[lo..hi],
\* the first half of the range and then the second
RECURSIVE first_pass(_, _, _, _, _)
first_pass(self, sets, nts, lo, hi) ==
    IF lo = hi THEN first_productions(self, sets, nts[lo], 1)
    ELSE LET mid == (lo + hi) \div 2
             left == first_pass(self, sets, nts, lo, mid)
             right == first_pass(self, left.sets, nts, mid + 1, hi)
         IN  [changed |-> left.changed \/ right.changed,
              sets |-> right.sets]

\* a loop that stops after its first pass
first_loop_once(self, sets, nts) ==
    first_pass(self, sets, nts, 1, Len(nts)).sets

\* _compute_first_sets: "while changed"
RECURSIVE first_loop(_, _, _)
first_loop(self, sets, nts) ==
    LET pass == first_pass(self, sets, nts, 1, Len(nts))
    IN  IF pass.changed THEN first_loop(self, pass.sets, nts) ELSE pass.sets

compute_first_sets(self, o) ==
    first_loop(self, [nt \in self.non_terminals |-> {}], IterNonTerminals(o))

\* _compute_follow_sets: "for i, symbol in enumerate(production)" from the
\* i-th symbol on, with self.follow = sets
RECURSIVE follow_symbols(_, _, _, _, _, _)
follow_symbols(self, first, sets, nt, production, i) ==
    IF i > Len(production) THEN [changed |-> FALSE, sets |-> sets]
    ELSE IF production[i] \notin self.non_terminals
    THEN follow_symbols(self, first, sets, nt, production, i + 1)
    ELSE LET symbol == production[i]
             old_size == Cardinality(sets[symbol])
             rest == SubSeq(production, i + 1, Len(production))
             first_of_rest == first_of_sequence(self, first, rest)
             updated ==
                 IF rest # <<>>
                 THEN sets[symbol] \cup (first_of_rest \ {lambda})
                      \cup (IF lambda \in first_of_rest THEN sets[nt]
                            ELSE {})
                 ELSE sets[symbol] \cup sets[nt]
             after == follow_symbols(self, first,
                                     [sets EXCEPT ![symbol] = updated],
                                     nt, production, i + 1)
         IN  [changed |-> Cardinality(updated) > old_size \/ after.changed,
              sets |-> after.sets]

\* _compute_follow_sets: "for production in self.productions[nt]"
RECURSIVE follow_productions(_, _, _, _, _)
follow_productions(self, first, sets, nt, i) ==
    IF i > Len(self.productions[nt]) THEN [changed |-> FALSE, sets |-> sets]
    ELSE LET here == follow_symbols(self, first, sets, nt,
                                    self.productions[nt][i], 1)
             rest == follow_productions(self, first, here.sets, nt, i + 1)
         IN  [changed |-> here.changed \/ rest.changed, sets |-> rest.sets]

\* _compute_follow_sets: "for nt in self.non_terminals" over nts[lo..hi]
RECURSIVE follow_pass(_, _, _, _, _, _)
follow_pass(self, first, sets, nts, lo, hi) ==
    IF lo = hi THEN follow_productions(self, first, sets, nts[lo], 1)
    ELSE LET mid == (lo + hi) \div 2
             left == follow_pass(self, first, sets, nts, lo, mid)
             right == follow_pass(self, first, left.sets, nts, mid + 1, hi)
         IN  [changed |-> left.changed \/ right.changed,
              sets |-> right.sets]

\* a loop that stops after its first pass
follow_loop_once(self, first, sets, nts) ==
    follow_pass(self, first, sets, nts, 1, Len(nts)).sets

\* _compute_follow_sets: "while changed"
RECURSIVE follow_loop(_, _, _, _)
follow_loop(self, first, sets, nts) ==
    LET pass == follow_pass(self, first, sets, nts, 1, Len(nts))
    IN  IF pass.changed THEN follow_loop(self, first, pass.sets, nts)
        ELSE pass.sets

compute_follow_sets(self, first, o) ==
    follow_loop(self, first,
                [nt \in self.non_terminals |->
                    IF nt = "<program>" THEN {"$"} ELSE {}],
                IterNonTerminals(o))

\* _build_parsing_table: "for terminal in ...: key = (nt, terminal)" with
\* "if key in self.table: self.conflicts.append(...)" and
\* "self.table[key] = production", for the terminals ts, which are the
\* elements of a set and so all different, with self.table = tbl; the
\* result is the conflicts appended and self.table after the loop
write_cells(tbl, nt, production, ts) ==
    LET written == {i \in 1..Len(ts) : <<nt, ts[i]>> \in DOMAIN tbl}
        again == InSet(ts, {ts[i] : i \in written})
    IN  [conflicts |->
             [k \in 1..Len(again) |->
                 [key |-> <<nt, again[k]>>,
                  existing |-> tbl[<<nt, again[k]>>],
                  new |-> production]],
         table |->
             [key \in {<<nt, ts[i]>> : i \in 1..Len(ts)} |-> production]
             @@ tbl]

\* _build_parsing_table: "for production in self.productions[nt]"
RECURSIVE table_productions(_, _, _, _, _, _, _)
table_productions(self, first, follow, tbl, nt, i, o) ==
    IF i > Len(self.productions[nt]) THEN [conflicts |-> <<>>, table |-> tbl]
    ELSE LET production == self.productions[nt][i]
             first_of_prod == first_of_sequence(self, first, production)
             in_first == IterTerminals(first_of_prod \ {lambda}, o)
             in_follow == IF lambda \in first_of_prod
                          THEN IterTerminals(follow[nt], o) ELSE <<>>
             by_first == write_cells(tbl, nt, production, in_first)
             by_follow == write_cells(by_first.table, nt, production,
                                      in_follow)
             rest == table_productions(self, first, follow, by_follow.table,
                                       nt, i + 1, o)
         IN  [conflicts |-> by_first.conflicts \o by_follow.conflicts
                            \o rest.conflicts,
              table |-> rest.table]

\* _build_parsing_table: "for nt in self.non_terminals" over nts[lo..hi]
RECURSIVE table_pass(_, _, _, _, _, _, _, _)
table_pass(self, first, follow, tbl, nts, lo, hi, o) ==
    IF lo = hi THEN table_productions(self, first, follow, tbl, nts[lo], 1, o)
    ELSE LET mid == (lo + hi) \div 2
             left == table_pass(self, first, follow, tbl, nts, lo, mid, o)
             right == table_pass(self, first, follow, left.table, nts,
                                 mid + 1, hi, o)
         IN  [conflicts |-> left.conflicts \o right.conflicts,
              table |-> right.table]

build_parsing_table(self, first, follow, o) ==
    table_pass(self, first, follow, <<>>, IterNonTerminals(o),
               1, Len(GrammarOrder), o)

\* __init__ with self.productions = prods in a run with iteration order o:
\* the fields of the parser that do not change afterwards
init(prods, o) ==
    LET self == init_grammar(prods)
        first_sets == compute_first_sets(self, o)
        follow_sets == compute_follow_sets(self, first_sets, o)
        built == build_parsing_table(self, first_sets, follow_sets, o)
    IN  [productions |-> self.productions,
         non_terminals |-> self.non_terminals,
         terminals |-> self.terminals,
         first |-> first_sets,
         follow |-> follow_sets,
         table |-> built.table,
         conflicts |-> built.conflicts]

\* the parser of a run of each iteration order
Parsers == <<init(productions, 1), init(productions, 2)>>

\* the parsers built in the other orders
OtherParsers == <<init(productions, 3), init(productions, 4)>>

\* self.first, self.follow, self.table, self.conflicts
first == Parsers[order].first
follow == Parsers[order].follow
table == Parsers[order].table
conflicts == Parsers[order].conflicts

-----------------------------------------------------------------------------
(* TableDrivenParser.parse: one iteration of the while loop *)

\* the bound of the step counter
MaxSteps == 10000

\* f"Unexpected: '{found}'\nExpected: ..." with the expected token kinds
Unexpected(found, expected) ==
    [text |-> "Unexpected", found |-> found, expected |-> expected]

\* the parser of a call of parse: its fields, the local step, and how the
\* call has ended ("running" while it has not)
ParserState ==
    [tokens |-> parser_tokens, pos |-> parser_pos, stack |-> stack,
     derivations |-> derivations, step |-> step, outcome |-> outcome,
     message |-> message]

\* self.stack[-1]
top_of(p) == p.stack[Len(p.stack)]

\* current: the kind of self.current_token, '$' when it is None
current_of(p) == IF p.pos < Len(p.tokens) THEN p.tokens[p.pos + 1] ELSE "$"

\* next_token: the kind of self.tokens[self.pos + 1], '$' past the end
next_token(p) ==
    IF p.pos + 1 < Len(p.tokens) THEN p.tokens[p.pos + 2] ELSE "$"

\* self._error(message): the SyntaxError leaves parse
error(p, msg) == [p EXCEPT !.outcome = "SyntaxError", !.message = msg]

\* self.stack.pop()
pop(p) == [p EXCEPT !.stack = SubSeq(@, 1, Len(@) - 1)]

\* TableDrivenParser.advance
parser_advance(p) == [p EXCEPT !.pos = @ + 1]

\* pop, push the production in reverse unless it is ['λ'], and record it
expand(p, production) ==
    [p EXCEPT
        !.stack = SubSeq(@, 1, Len(@) - 1)
                  \o (IF production # <<lambda>> THEN Reverse(production)
                      ELSE <<>>),
        !.derivations = Append(@, <<top_of(p), production>>)]

match_terminal_skip(p) ==
    IF top_of(p) = current_of(p) THEN parser_advance(pop(p)) ELSE pop(p)

\* Case 2: the top is a terminal
match_terminal(p) ==
    IF top_of(p) = current_of(p) THEN parser_advance(pop(p))
    ELSE error(p, Unexpected(current_of(p), {top_of(p)}))

AssignmentStarts ==
    {"=", "+=", "-=", "*=", "/=", "%=", "**=", "++", "--", "[", "."}

\* a lookahead that takes every second token but '(' and an identifier for
\* the start of an assignment
statement_lookahead_default(p) ==
    LET next == next_token(p)
    IN  IF next = "("
        THEN expand(p, <<"<function_call_statement>">>)
        ELSE IF next = "identifier"
        THEN expand(p, <<"<declaration>">>)
        ELSE expand(p, <<"<assignment_statement>">>)

\* Case 4, <statement> before an identifier: the second token decides
statement_lookahead(p) ==
    LET next == next_token(p)
    IN  IF next \in AssignmentStarts
        THEN expand(p, <<"<assignment_statement>">>)
        ELSE IF next = "("
        THEN expand(p, <<"<function_call_statement>">>)
        ELSE IF next = "identifier"
        THEN expand(p, <<"<declaration>">>)
        ELSE error(p, Unexpected(next, AssignmentStarts
                                       \cup {"(", "identifier"}))

\* a choice that takes the production from the cell of the table
val_list_lookahead_table(p) == expand(p, table[<<"<val_list>", "[">>])

\* Case 4, <val_list> before '[': the second token decides
val_list_lookahead(p) ==
    IF next_token(p) = "[" THEN expand(p, <<"<val_list_2d>">>)
    ELSE expand(p, <<"<val_list_1d>">>)

\* Case 4, the table lookup
table_lookup(p, self) ==
    LET key == <<top_of(p), current_of(p)>>
        expected ==
            {k[2] : k \in {k \in DOMAIN self.table : k[1] = top_of(p)}}
    IN  IF key \in DOMAIN self.table THEN expand(p, self.table[key])
        ELSE IF expected # {}
        THEN error(p, Unexpected(current_of(p), expected))
        ELSE error(p, [text |-> "No valid continuation",
                       found |-> current_of(p), expected |-> {}])

\* the if/elif chain on top
parse_case(p, self) ==
    IF top_of(p) = "$" THEN [p EXCEPT !.outcome = "True"]
    ELSE IF top_of(p) \in self.terminals THEN match_terminal(p)
    ELSE IF top_of(p) = lambda THEN pop(p)
    ELSE IF top_of(p) \in self.non_terminals
    THEN IF top_of(p) = "<statement>" /\ current_of(p) = "identifier"
         THEN statement_lookahead(p)
         ELSE IF top_of(p) = "<val_list>" /\ current_of(p) = "["
         THEN val_list_lookahead(p)
         ELSE table_lookup(p, self)
    ELSE error(p, [text |-> "Internal parser error", found |-> top_of(p),
                   expected |-> {}])

\* an iteration without the bound on step
parse_step_unbounded(p, self) ==
    LET q == parse_case(p, self)
    IN  IF q.outcome # "running" THEN q
        ELSE IF q.stack = <<>>
        THEN [q EXCEPT !.step = @ + 1, !.outcome = "True"]
        ELSE [q EXCEPT !.step = @ + 1]

\* one iteration: the case, "step += 1", the bound, and the loop condition
parse_step(p, self) ==
    LET q == parse_case(p, self)
    IN  IF q.outcome # "running" THEN q
        ELSE IF q.step + 1 > MaxSteps
        THEN error([q EXCEPT !.step = @ + 1],
                   [text |-> "Parser exceeded maximum steps", found |-> "",
                    expected |-> {}])
        ELSE IF q.stack = <<>>
        THEN [q EXCEPT !.step = @ + 1, !.outcome = "True"]
        ELSE [q EXCEPT !.step = @ + 1]

\* parse from p on, for at most n iterations: the first half of them and,
\* unless the call has ended, the rest
RECURSIVE Iterate(_, _, _)
Iterate(p, self, n) ==
    IF n = 0 \/ p.outcome # "running" THEN p
    ELSE IF n = 1 THEN parse_step(p, self)
    ELSE LET half == Iterate(p, self, n \div 2)
         IN  IF half.outcome # "running" THEN half
             ELSE Iterate(half, self, n - n \div 2)

\* __init__ with the token kinds tks
constructed(tks) ==
    [tokens |-> tks, pos |-> 0, stack |-> <<"$", "<program>">>,
     derivations |-> <<>>, step |-> 1, outcome |-> "running",
     message |-> NoMessage]

-----------------------------------------------------------------------------
(* The token sequences that are parsed *)

\* longest sentence of the grammar that is derived in full
MaxTokens == 8

\* number of assignment statements of the long program
MaxStmts == 345

\* the least number of tokens of a sentence of each non-terminal, as pairs
\* <<nt, n>>, none counted beyond MaxTokens + 1
LenIn(ml, symbol) ==
    IF symbol = lambda THEN 0
    ELSE IF symbol \in non_terminals
    THEN (CHOOSE pair \in ml : pair[1] = symbol)[2]
    ELSE 1

RECURSIVE FormLen(_, _)
FormLen(ml, f) ==
    IF f = <<>> THEN 0
    ELSE LET n == LenIn(ml, Head(f)) + FormLen(ml, Tail(f))
         IN  IF n > MaxTokens THEN MaxTokens + 1 ELSE n

RECURSIVE MinLenFrom(_)
MinLenFrom(ml) ==
    LET shorter ==
            {<<nt, CHOOSE n \in 0..(MaxTokens + 1) :
                       /\ \/ n = LenIn(ml, nt)
                          \/ \E i \in 1..Len(productions[nt]) :
                                 n = FormLen(ml, productions[nt][i])
                       /\ n <= LenIn(ml, nt)
                       /\ \A i \in 1..Len(productions[nt]) :
                              n <= FormLen(ml, productions[nt][i])>> :
                nt \in non_terminals}
    IN  IF shorter = ml THEN ml ELSE MinLenFrom(shorter)

MinLen == MinLenFrom({<<nt, MaxTokens + 1>> : nt \in non_terminals})

\* the place of the leftmost non-terminal of f, 0 when f is a sentence
Leftmost(f) ==
    IF \E i \in 1..Len(f) : f[i] \in non_terminals
    THEN CHOOSE i \in 1..Len(f) :
             /\ f[i] \in non_terminals
             /\ \A j \in 1..(i - 1) : f[j] \notin non_terminals
    ELSE 0

\* f with the non-terminal at place i rewritten by production
Rewrite(f, i, production) ==
    SubSeq(f, 1, i - 1)
    \o (IF production = <<lambda>> THEN <<>> ELSE production)
    \o SubSeq(f, i + 1, Len(f))

\* token kinds put into a sentence to spoil it
Spoilers == {"finish", ";", "identifier"}

\* a sentence f, f with a token more at the end, f with one token
\* replaced, and the proper prefixes of f
Inputs(f) ==
    {f}
    \cup {Append(f, t) : t \in Spoilers}
    \cup {[f EXCEPT ![i] = t] : i \in 1..Len(f), t \in Spoilers}
    \cup {SubSeq(f, 1, k) : k \in 0..(Len(f) - 1)}

\* the token kinds of the self-test of the module, and programs that
\* declare an empty list, a list in one and a list in two dimensions
Samples ==
    {<<"start", "{", "num", "identifier", "=", "num_lit", ";", "}",
       "finish">>,
     <<"start", "{", "list", "num", "identifier", "=", "[", "]", ";", "}",
       "finish">>,
     <<"start", "{", "list", "num", "identifier", "=", "[", "num_lit", "]",
       ";", "}", "finish">>,
     <<"start", "{", "list", "num", "identifier", "=", "[", "[", "num_lit",
       "]", "]", ";", "}", "finish">>}

\* start { x = 5 ; ... x = 5 ; } finish with MaxStmts assignments
LongProgram ==
    <<"start", "{">>
    \o [i \in 1..(4 * MaxStmts) |->
           <<"identifier", "=", "num_lit", ";">>[((i - 1) % 4) + 1]]
    \o <<"}", "finish">>

\* start { T v ; T v ; x = 5 ; ... x = 5 ; } finish with two declarations
\* of a group type and MaxStmts - 1 assignments: the program whose last
\* token is matched in the iteration that passes MaxSteps
EdgeProgram ==
    <<"start", "{", "identifier", "identifier", ";", "identifier",
      "identifier", ";">>
    \o [i \in 1..(4 * (MaxStmts - 1)) |->
           <<"identifier", "=", "num_lit", ";">>[((i - 1) % 4) + 1]]
    \o <<"}", "finish">>

LongPrograms == {LongProgram, EdgeProgram}

-----------------------------------------------------------------------------
(* The parser as a state machine *)

LexerIdle ==
    /\ source = <<>>
    /\ pos = [idx |-> 0, ln |-> 0, col |-> 0]
    /\ tokens = <<>>
    /\ errors = <<>>
    /\ scan = [start |-> 0, dfa |-> <<>>, token |-> <<>>]
    /\ lexpc = "idle"
    /\ calls = <<>>

Init ==
    /\ LexerIdle
    /\ AnalyzerIdle
    /\ order \in Orders
    /\ form = <<"<program>">>
    /\ derived = FALSE
    /\ parser_tokens = <<>>
    /\ parser_pos = 0
    /\ stack = <<>>
    /\ derivations = <<>>
    /\ step = 0
    /\ outcome = "unbuilt"
    /\ message = NoMessage

\* the parser becomes p
Becomes(p) ==
    /\ parser_tokens' = p.tokens
    /\ parser_pos' = p.pos
    /\ stack' = p.stack
    /\ derivations' = p.derivations
    /\ step' = p.step
    /\ outcome' = p.outcome
    /\ message' = p.message

\* one step of a leftmost derivation from <program>
Derive ==
    /\ outcome = "unbuilt"
    /\ Leftmost(form) # 0
    /\ \E i \in 1..Len(productions[form[Leftmost(form)]]) :
           LET f == Rewrite(form, Leftmost(form),
                            productions[form[Leftmost(form)]][i])
           IN  /\ FormLen(MinLen, f) <= MaxTokens
               /\ form' = f
    /\ UNCHANGED <<lexvars, semvars, order, derived, parser_tokens, parser_pos, stack,
                   derivations, step, outcome, message>>

\* TableDrivenParser(tokens) for the sentence derived, or for it spoiled
Construct ==
    /\ outcome = "unbuilt"
    /\ Leftmost(form) = 0
    /\ \E tks \in Inputs(form) :
           /\ derived' = (tks = form)
           /\ Becomes(constructed(tks))
    /\ UNCHANGED <<lexvars, semvars, order, form>>

\* TableDrivenParser(tokens) for a sample
ConstructSample ==
    /\ outcome = "unbuilt"
    /\ form = <<"<program>">>
    /\ \E tks \in Samples :
           /\ form' = tks
           /\ derived' = TRUE
           /\ Becomes(constructed(tks))
    /\ UNCHANGED <<lexvars, semvars, order>>

\* an iteration of the loop of parse with top = '$'
ParseAccept ==
    /\ outcome = "running"
    /\ top_of(ParserState) = "$"
    /\ Becomes(parse_step(ParserState, Parsers[order]))
    /\ UNCHANGED <<lexvars, semvars, order, form, derived>>

\* an iteration with a terminal on top
ParseTerminal ==
    /\ outcome = "running"
    /\ top_of(ParserState) \in terminals \ {"$"}
    /\ Becomes(parse_step(ParserState, Parsers[order]))
    /\ UNCHANGED <<lexvars, semvars, order, form, derived>>

\* an iteration with <statement> on top and an identifier as current token
ParseStatement ==
    /\ outcome = "running"
    /\ top_of(ParserState) = "<statement>"
    /\ current_of(ParserState) = "identifier"
    /\ Becomes(parse_step(ParserState, Parsers[order]))
    /\ UNCHANGED <<lexvars, semvars, order, form, derived>>

\* an iteration with <val_list> on top and '[' as current token
ParseValList ==
    /\ outcome = "running"
    /\ top_of(ParserState) = "<val_list>"
    /\ current_of(ParserState) = "["
    /\ Becomes(parse_step(ParserState, Parsers[order]))
    /\ UNCHANGED <<lexvars, semvars, order, form, derived>>

\* an iteration with any other non-terminal on top, or any other current
\* token
ParseTable ==
    /\ outcome = "running"
    /\ top_of(ParserState) \in non_terminals
    /\ ~(top_of(ParserState) = "<statement>"
         /\ current_of(ParserState) = "identifier")
    /\ ~(top_of(ParserState) = "<val_list>"
         /\ current_of(ParserState) = "[")
    /\ Becomes(parse_step(ParserState, Parsers[order]))
    /\ UNCHANGED <<lexvars, semvars, order, form, derived>>

Next ==
    \/ Derive
    \/ Construct
    \/ ConstructSample
    \/ ParseAccept
    \/ ParseTerminal
    \/ ParseStatement
    \/ ParseValList
    \/ ParseTable

Spec == Init /\ [][Next]_vars

\* TableDrivenParser(tokens).parse() as one step, for the sentence derived
\* or for it with a token more at the end
RunParse ==
    /\ outcome = "unbuilt"
    /\ Leftmost(form) = 0
    /\ \E tks \in {form} \cup {Append(form, t) : t \in Spoilers} :
           /\ derived' = (tks = form)
           /\ Becomes(Iterate(constructed(tks), Parsers[order], MaxSteps))
    /\ UNCHANGED <<lexvars, semvars, order, form>>

\* TableDrivenParser(tokens).parse() as one step, for a sample
RunSample ==
    /\ outcome = "unbuilt"
    /\ form = <<"<program>">>
    /\ \E tks \in Samples :
           /\ form' = tks
           /\ derived' = TRUE
           /\ Becomes(Iterate(constructed(tks), Parsers[order], MaxSteps))
    /\ UNCHANGED <<lexvars, semvars, order>>

\* TableDrivenParser(tokens).parse() as one step, for a long program
RunLong ==
    /\ outcome = "unbuilt"
    /\ form = <<"<program>">>
    /\ \E tks \in LongPrograms :
           /\ form' = tks
           /\ derived' = TRUE
           /\ Becomes(Iterate(constructed(tks), Parsers[order], MaxSteps))
    /\ UNCHANGED <<lexvars, semvars, order>>

NextRun ==
    \/ Derive
    \/ RunParse
    \/ RunSample
    \/ RunLong

SpecRun == Init /\ [][NextRun]_vars

-----------------------------------------------------------------------------
(* Claims about the parser *)

\* C7: in an iteration of parse with a terminal other than the end marker
\* on top of the stack, the terminal is popped and the cursor moves on by
\* exactly one token when it is the kind of the current token, and nothing
\* else changes; when it is not, the SyntaxError "Unexpected ... Expected
\* top" is raised at once with the stack, the cursor and the derivations as
\* they were.  After a SyntaxError no step changes the stack, the cursor or
\* the derivations.
C7_TerminalOnTop ==
    /\ [][(/\ outcome = "running"
           /\ top_of(ParserState) \in terminals \ {"$"})
          => IF top_of(ParserState) = current_of(ParserState)
             THEN /\ stack' = SubSeq(stack, 1, Len(stack) - 1)
                  /\ parser_pos' = parser_pos + 1
                  /\ derivations' = derivations
                  /\ outcome' = "running"
                  /\ message' = NoMessage
             ELSE /\ outcome' = "SyntaxError"
                  /\ message' = Unexpected(current_of(ParserState),
                                           {top_of(ParserState)})
                  /\ stack' = stack
                  /\ parser_pos' = parser_pos
                  /\ derivations' = derivations]_vars
    /\ [][outcome = "SyntaxError"
          => /\ outcome' = "SyntaxError"
             /\ stack' = stack
             /\ parser_pos' = parser_pos
             /\ derivations' = derivations]_vars

\* a parse that has matched tokens and expanded non-terminals has ended
\* with a terminal on top that is not the kind of the current token
C7_Witness ==
    /\ outcome = "SyntaxError"
    /\ top_of(ParserState) \in terminals \ {"$"}
    /\ top_of(ParserState) # current_of(ParserState)
    /\ message = Unexpected(current_of(ParserState), {top_of(ParserState)})
    /\ parser_pos > 1
    /\ Len(derivations) > 1

\* C8: parse returns True only when every token has been consumed
C8_AllConsumed == outcome = "True" => parser_pos = Len(parser_tokens)

\* C9: parse returns True for every token sequence derivable from <program>
C9_AcceptsDerivable ==
    (derived /\ outcome \in {"True", "SyntaxError"}) => outcome = "True"

\* C10: after _build_parsing_table the conflict list is empty
C10_NoConflicts == outcome # "unbuilt" => conflicts = <<>>

-----------------------------------------------------------------------------
(* Claims about FIRST, FOLLOW and the bound of parse *)

\* one more pass of the loop of _compute_first_sets and of the loop of
\* _compute_follow_sets over the parser of iteration order o
OneMorePass(o) ==
    LET self == Parsers[o]
    IN  [first |-> first_pass(self, self.first, IterNonTerminals(o),
                              1, Len(GrammarOrder)),
         follow |-> follow_pass(self, self.first, self.follow,
                                IterNonTerminals(o), 1, Len(GrammarOrder))]

\* the pass over FIRST and the pass over FOLLOW add no element to any set
\* of the parser of iteration order o, and '$' is in FOLLOW(<program>)
ClosedUnder(o) ==
    LET self == Parsers[o]
        more == OneMorePass(o)
    IN  /\ ~more.first.changed
        /\ \A nt \in self.non_terminals :
               more.first.sets[nt] = self.first[nt]
        /\ ~more.follow.changed
        /\ \A nt \in self.non_terminals :
               more.follow.sets[nt] = self.follow[nt]
        /\ "$" \in self.follow["<program>"]

Closed == <<ClosedUnder(1), ClosedUnder(2)>>

\* C11: when the parser is constructed, one more pass of the loop of
\* _compute_first_sets over all productions adds no element to any FIRST
\* set, one more pass of the loop of _compute_follow_sets adds no element to
\* any FOLLOW set, and '$' is in FOLLOW(<program>).
C11_Closed == outcome # "unbuilt" => Closed[order]

\* C11 happens: a parser is constructed whose FIRST sets hold λ for a
\* non-terminal that can vanish and whose FOLLOW sets took terminals from
\* the FIRST of what follows and from the FOLLOW of the left-hand side
C11_Witness ==
    /\ outcome = "running"
    /\ {"start", "group"} \subseteq first["<program>"]
    /\ lambda \in first["<group_body>"]
    /\ "}" \in follow["<group_body>"]
    /\ "$" \in follow["<program>"]
    /\ "$" \in follow["<start_block>"]

\* C12: a call of parse ends, with True or with a SyntaxError, within
\* MaxSteps iterations of its loop (step is one more than the number of
\* iterations that have gone through "step += 1"), and it ends with
\* "Parser exceeded maximum steps" exactly when the MaxSteps-th iteration
\* has not ended it otherwise.
C12_Terminates ==
    outcome # "unbuilt" =>
        /\ outcome \in {"True", "SyntaxError"}
        /\ step >= 1
        /\ step <= MaxSteps + 1
        /\ step = MaxSteps + 1 <=>
               message.text = "Parser exceeded maximum steps"
        /\ message.text = "Parser exceeded maximum steps" =>
               outcome = "SyntaxError"

\* C12 happens: a call has been ended by the step counter after MaxSteps
\* iterations, with tokens still to read
C12_Witness ==
    /\ outcome = "SyntaxError"
    /\ message.text = "Parser exceeded maximum steps"
    /\ step = MaxSteps + 1
    /\ parser_pos < Len(parser_tokens)
    /\ Len(derivations) > MaxStmts

-----------------------------------------------------------------------------
(* The type system of src/semantic_analyzer.py *)

NUMERIC_TYPES == {"num", "decimal", "bigdecimal"}

PRIMITIVE_TYPES == NUMERIC_TYPES \cup {"bool", "text", "letter"}

NUMERIC_OR_BOOL == NUMERIC_TYPES \cup {"bool"}

RETURN_TYPES == PRIMITIVE_TYPES \cup {"empty"}

ARITHMETIC_OPS == {"+", "-", "*", "/", "%", "**"}

RELATIONAL_OPS == {">", "<", ">=", "<="}

EQUALITY_OPS == {"==", "!="}

LOGICAL_OPS == {"&&", "||", "!"}

COMPOUND_ASSIGN == {"+=", "-=", "*=", "/=", "%=", "**="}

EXPR_STARTERS ==
    {"num_lit", "decimal_lit", "string_lit", "char_lit",
     "Yes", "No", "identifier", "(", "-", "!", "size"}

STMT_STARTERS ==
    {"check", "select", "each", "during", "identifier", "show", "read",
     "fixed", "list"} \cup PRIMITIVE_TYPES

is_numeric_or_bool(dtype) == dtype \in NUMERIC_OR_BOOL

is_valid_index_type(dtype) == dtype \in {"num", "bool", "unknown"}

\* _NUMERIC_RANK: a higher rank is a wider type
NUMERIC_RANK == [t \in NUMERIC_TYPES |->
    CASE t = "num" -> 0 [] t = "decimal" -> 1 [] t = "bigdecimal" -> 2]

\* a rank test that lets a wider expression into a narrower declaration
type_compatible_narrowing(declared, expr) ==
    \/ declared = "unknown" \/ expr = "unknown"
    \/ declared = expr
    \/ expr = "bool" /\ declared \in NUMERIC_TYPES
    \/ declared = "bool" /\ expr \in NUMERIC_TYPES
    \/ /\ declared \in DOMAIN NUMERIC_RANK
       /\ expr \in DOMAIN NUMERIC_RANK
       /\ NUMERIC_RANK[expr] >= NUMERIC_RANK[declared]

type_compatible(declared, expr) ==
    IF declared = "unknown" \/ expr = "unknown" THEN TRUE
    ELSE IF declared = expr THEN TRUE
    ELSE IF expr = "bool" /\ declared \in NUMERIC_TYPES THEN TRUE
    ELSE IF declared = "bool" /\ expr \in NUMERIC_TYPES THEN TRUE
    ELSE IF declared \in DOMAIN NUMERIC_RANK /\ expr \in DOMAIN NUMERIC_RANK
    THEN NUMERIC_RANK[expr] <= NUMERIC_RANK[declared]
    ELSE FALSE

\* an operation that takes the type of its left operand
result_type_of_op_left(op, left, right) ==
    IF op \in ARITHMETIC_OPS
    THEN IF left \in NUMERIC_TYPES THEN left ELSE "num"
    ELSE IF op \in RELATIONAL_OPS \cup EQUALITY_OPS \cup LOGICAL_OPS
    THEN "bool"
    ELSE "unknown"

result_type_of_op(op, left, right) ==
    IF op \in ARITHMETIC_OPS
    THEN IF left = "bigdecimal" \/ right = "bigdecimal" THEN "bigdecimal"
         ELSE IF left = "decimal" \/ right = "decimal" THEN "decimal"
         ELSE "num"
    ELSE IF op \in RELATIONAL_OPS \cup EQUALITY_OPS \cup LOGICAL_OPS
    THEN "bool"
    ELSE "unknown"

\* the type names the analyzer passes around: the primitive types, the
\* return type empty, the type of what it could not type, and the name of a
\* group
TypeNames == RETURN_TYPES \cup {"unknown", "Pt"}

\* the operators of the quadruples
Operators ==
    ARITHMETIC_OPS \cup RELATIONAL_OPS \cup EQUALITY_OPS \cup LOGICAL_OPS
        \cup {"unary-", "="}

TypesInit ==
    /\ LexerIdle
    /\ ParserUnbuilt
    /\ AnalyzerIdle

CallTypeCompatible ==
    /\ \E declared, expr \in TypeNames :
           types' = [fn |-> "type_compatible", args |-> <<declared, expr>>,
                     result |-> type_compatible(declared, expr)]
    /\ UNCHANGED <<lexvars, parservars, analyzer>>

CallResultTypeOfOp ==
    /\ \E op \in Operators, left, right \in TypeNames :
           types' = [fn |-> "result_type_of_op", args |-> <<op, left, right>>,
                     result |-> result_type_of_op(op, left, right)]
    /\ UNCHANGED <<lexvars, parservars, analyzer>>

TypesNext ==
    \/ CallTypeCompatible
    \/ CallResultTypeOfOp

SpecTypes == TypesInit /\ [][TypesNext]_vars

-----------------------------------------------------------------------------
(* Claims about the type helpers *)

\* the widening order of the numeric types, narrowest first
Widening == <<"num", "decimal", "bigdecimal">>

\* the place of a numeric type in the widening order
Width(t) == CHOOSE i \in 1..Len(Widening) : Widening[i] = t

\* C13: type_compatible(declared, expr) is true exactly when the two are
\* equal, or one of them is unknown, or one is bool and the other numeric,
\* or both are numeric and expr is not wider than declared; so
\* (bool, num) and (decimal, num) are compatible, (num, decimal) is not, and
\* text and letter are compatible with no other type than themselves
\* (and unknown).
C13_TypeCompatible ==
    types.fn = "type_compatible" =>
        LET declared == types.args[1]
            expr == types.args[2]
        IN  /\ types.result <=>
                   \/ declared = expr
                   \/ declared = "unknown" \/ expr = "unknown"
                   \/ declared = "bool" /\ expr \in NUMERIC_TYPES
                   \/ expr = "bool" /\ declared \in NUMERIC_TYPES
                   \/ /\ declared \in NUMERIC_TYPES
                      /\ expr \in NUMERIC_TYPES
                      /\ Width(expr) <= Width(declared)
            /\ types.args = <<"bool", "num">> => types.result
            /\ types.args = <<"decimal", "num">> => types.result
            /\ types.args = <<"num", "decimal">> => ~types.result
            /\ \A t \in {"text", "letter"} :
                   /\ declared = t /\ types.result => expr \in {t, "unknown"}
                   /\ expr = t /\ types.result => declared \in {t, "unknown"}

\* C13 happens: a narrower numeric type has been found compatible with a
\* wider declaration
C13_Witness ==
    /\ types.fn = "type_compatible"
    /\ types.args = <<"bigdecimal", "decimal">>
    /\ types.result = TRUE

\* the wider of two type names, a type that is not numeric counting as num
Widest(left, right) ==
    LET w(t) == IF t \in NUMERIC_TYPES THEN Width(t) ELSE 1
    IN  Widening[IF w(left) >= w(right) THEN w(left) ELSE w(right)]

\* C14: result_type_of_op gives, for an arithmetic operator, the widest
\* numeric type among its two operands (num when neither is decimal or
\* bigdecimal), and bool for a relational, equality or logical operator
\* whatever the operands; both operands of an arithmetic operator on
\* numeric types are type_compatible with the result type.
C14_ResultType ==
    types.fn = "result_type_of_op" =>
        LET op == types.args[1]
            left == types.args[2]
            right == types.args[3]
        IN  /\ op \in ARITHMETIC_OPS => types.result = Widest(left, right)
            /\ op \in RELATIONAL_OPS \cup EQUALITY_OPS \cup LOGICAL_OPS =>
                   types.result = "bool"
            /\ /\ op \in ARITHMETIC_OPS
               /\ left \in NUMERIC_TYPES
               /\ right \in NUMERIC_TYPES
               => /\ type_compatible(types.result, left)
                  /\ type_compatible(types.result, right)

\* C14 happens: an arithmetic operator has widened to its right operand
C14_Witness ==
    /\ types.fn = "result_type_of_op"
    /\ types.args = <<"*", "num", "bigdecimal">>
    /\ types.result = "bigdecimal"

-----------------------------------------------------------------------------
(* The semantic analyzer of src/semantic_analyzer.py.  A SemanticAnalyzer   *)
(* is a record self; self.frames is the call stack of its walk, one frame   *)
(* [proc, pc, loc] per call of a method, loc holding the locals.  A method  *)
(* is cut into segments at its calls and at the points where a value made   *)
(* by the method itself is first used; a segment is a list of operations    *)
(* <<name, operands>> run in order, the last one a "call", a "goto" or a    *)
(* "return".  An Optional value is <<>> for None and <<v>> for v.           *)

\* the frames at which Python raises RecursionError
RecursionLimit == 1000

\* the dataclass Symbol with its defaults
Symbol(name, kind, data_type) ==
    [name |-> name, kind |-> kind, data_type |-> data_type,
     is_fixed |-> FALSE, is_worldwide |-> FALSE, is_list |-> FALSE,
     list_dim |-> 0, params |-> <<>>, return_type |-> "",
     group_members |-> <<>>]

\* SymbolTable.lookup: the innermost scope that has the name
lookup(self, name) ==
    LET has == {i \in 1..Len(self.scopes) : name \in DOMAIN self.scopes[i]}
    IN  IF has = {} THEN <<>>
        ELSE <<self.scopes[CHOOSE i \in has : \A j \in has : j <= i][name]>>

lookup_current_scope(self, name) ==
    LET current == self.scopes[Len(self.scopes)]
    IN  IF name \in DOMAIN current THEN <<current[name]>> ELSE <<>>

lookup_global(self, name) ==
    IF name \in DOMAIN self.scopes[1] THEN <<self.scopes[1][name]>> ELSE <<>>

\* SymbolTable.lookup_in_enclosing_local: scopes[1:-1], outermost first
lookup_in_enclosing_local(self, name) ==
    LET has == {i \in 2..(Len(self.scopes) - 1) :
                    name \in DOMAIN self.scopes[i]}
    IN  IF has = {} THEN <<>>
        ELSE <<self.scopes[CHOOSE i \in has : \A j \in has : i <= j][name]>>

\* the name is in the innermost scope: declare would return False
declared(self, name) == name \in DOMAIN self.scopes[Len(self.scopes)]

\* SymbolTable.declare: the scopes after the call
declare(self, symbol) ==
    IF declared(self, symbol.name)
    THEN self.scopes
    ELSE [self.scopes EXCEPT ![Len(self.scopes)] =
              (symbol.name :> symbol) @@ @]

\* SemanticAnalyzer.__init__
SemanticAnalyzer(tokens_) ==
    [status |-> "built", tokens |-> tokens_, pos |-> 0, errors |-> <<>>,
     quadruples |-> <<>>, scopes |-> <<<<>>>>, temp_count |-> 0,
     label_count |-> 0, current_function |-> <<>>, has_return |-> FALSE,
     frames |-> <<>>, ret |-> <<>>]

\* self.current is None
at_end(self) == self.pos >= Len(self.tokens)

\* _current_type
current_type(self) ==
    IF at_end(self) THEN "$" ELSE self.tokens[self.pos + 1].type

\* "tok.value if tok else ''" for the current token
current_value(self) ==
    IF at_end(self) THEN "" ELSE self.tokens[self.pos + 1].value

\* the current token as a place in the token list, 0 for None
current_token(self) == IF at_end(self) THEN 0 ELSE self.pos + 1

\* _peek_next_type
peek_next_type(self) ==
    IF self.pos + 1 < Len(self.tokens)
    THEN self.tokens[self.pos + 2].type ELSE "$"

\* _advance
sem_advance(self) == [self EXCEPT !.pos = @ + 1]

\* _error and _token_location: the error is located at the token given, at
\* the current token when none is given, and at (0, 0) when there is neither
sem_error(self, message_, token) ==
    [self EXCEPT !.errors = Append(@,
        [message |-> message_,
         at |-> IF token # 0 THEN token ELSE current_token(self)])]

\* _consume
consume(self, expected_type) ==
    IF at_end(self)
    THEN sem_error(self, "Expected '" \o expected_type
                             \o "', reached end of input", 0)
    ELSE IF current_type(self) # expected_type
    THEN sem_advance(sem_error(self,
             "Expected '" \o expected_type \o "', got '"
                 \o current_type(self) \o "'", current_token(self)))
    ELSE sem_advance(self)

\* the locals of the running call
locals(self) == self.frames[Len(self.frames)].loc

\* the running call gets the local name
assign(self, name, value) ==
    [self EXCEPT !.frames[Len(self.frames)].loc = (name :> value) @@ @]

\* a call of a method of the analyzer: the caller goes on at resume when
\* the method returns.  Python raises RecursionError at RecursionLimit frames.
call(self, proc_, args, resume) ==
    IF Len(self.frames) >= RecursionLimit
    THEN [self EXCEPT !.status = "RecursionError"]
    ELSE [self EXCEPT !.frames =
              Append([@ EXCEPT ![Len(@)].pc = resume],
                     [proc |-> proc_, pc |-> 1, loc |-> args])]

\* a return: the value is left in self.ret for the caller
return(self, value) ==
    [self EXCEPT !.frames = SubSeq(@, 1, Len(@) - 1),
                 !.ret = value,
                 !.status = IF Len(self.frames) = 1 THEN "returned" ELSE @]

\* _emit that puts the quadruple in front of the others
emit_in_front(self, op, arg1, arg2, result) ==
    [self EXCEPT !.quadruples =
        <<[op |-> op, arg1 |-> arg1, arg2 |-> arg2, result |-> result]>> \o @]

\* _emit: one quadruple more
emit(self, op, arg1, arg2, result) ==
    [self EXCEPT !.quadruples = Append(@,
        [op |-> op, arg1 |-> arg1, arg2 |-> arg2, result |-> result])]

\* _new_temp that does not count the temporary it gives
new_temp_stale(self, name) ==
    assign(self, name, "_t" \o ToString(self.temp_count + 1))

\* _new_temp, the temporary kept in the local name
new_temp(self, name) ==
    assign([self EXCEPT !.temp_count = @ + 1], name,
           "_t" \o ToString(self.temp_count + 1))

\* _new_label that does not count the label it gives
new_label_stale(self, name) ==
    assign(self, name, "L" \o ToString(self.label_count + 1))

\* _new_label, the label kept in the local name
new_label(self, name) ==
    assign([self EXCEPT !.label_count = @ + 1], name,
           "L" \o ToString(self.label_count + 1))

\* SymbolTable.enter_scope
enter_scope(self) == [self EXCEPT !.scopes = Append(@, <<>>)]

\* exit_scope that leaves the scope open
exit_scope_missed(self) == self

\* SymbolTable.exit_scope: the global scope is never popped
exit_scope(self) ==
    IF Len(self.scopes) > 1
    THEN [self EXCEPT !.scopes = SubSeq(@, 1, Len(@) - 1)]
    ELSE self

\* one operation of a segment
Exec(self, op) ==
    CASE op[1] = "consume" -> consume(self, op[2])
      [] op[1] = "advance" -> sem_advance(self)
      [] op[1] = "error" -> sem_error(self, op[2], op[3])
      [] op[1] = "emit" -> emit(self, op[2], op[3], op[4], op[5])
      [] op[1] = "new_temp" -> new_temp(self, op[2])
      [] op[1] = "new_label" -> new_label(self, op[2])
      [] op[1] = "enter_scope" -> enter_scope(self)
      [] op[1] = "exit_scope" -> exit_scope(self)
      [] op[1] = "declare" ->
            [self EXCEPT !.scopes = declare(self, op[2])]
      [] op[1] = "token" ->
            assign(assign(self, op[2], current_token(self)),
                   op[3], current_value(self))
      [] op[1] = "set" -> assign(self, op[2], op[3])
      [] op[1] = "self" -> [self EXCEPT ![op[2]] = op[3]]
      [] op[1] = "goto" ->
            [self EXCEPT !.frames[Len(self.frames)].pc = op[2]]
      [] op[1] = "call" -> call(self, op[2], op[3], op[4])
      [] op[1] = "return" -> return(self, op[2])

\* the operations of a segment from the k-th on
RECURSIVE Run(_, _, _)
Run(self, ops, k) ==
    IF k > Len(ops) THEN self ELSE Run(Exec(self, ops[k]), ops, k + 1)

\* toks[j].type of _pass1, and no type at all when j is not below n
type_at(self, j) ==
    IF j < Len(self.tokens) THEN self.tokens[j + 1].type ELSE ""

\* _pass1: the loop over the members of a group, from toks[j] on
RECURSIVE group_members(_, _, _)
group_members(self, j, members) ==
    IF ~(j < Len(self.tokens) /\ type_at(self, j) # "}") THEN members
    ELSE IF /\ type_at(self, j) \in PRIMITIVE_TYPES
            /\ type_at(self, j + 1) = "identifier"
    THEN group_members(self,
             IF type_at(self, j + 2) = ";" THEN j + 3 ELSE j + 2,
             (self.tokens[j + 2].value :> type_at(self, j)) @@ members)
    ELSE group_members(self, j + 1, members)

\* _pass1: the loop over the parameters of a function, from toks[j] on
RECURSIVE function_params(_, _, _)
function_params(self, j, params) ==
    IF ~(j < Len(self.tokens) /\ type_at(self, j) # ")") THEN params
    ELSE IF /\ type_at(self, j) \in PRIMITIVE_TYPES
            /\ type_at(self, j + 1) = "identifier"
    THEN function_params(self,
             IF type_at(self, j + 2) = "," THEN j + 3 ELSE j + 2,
             Append(params, <<type_at(self, j), self.tokens[j + 2].value>>))
    ELSE function_params(self, j + 1, params)

\* declare in _pass1, with the error of a duplicate
declare_global(self, sym, what, token) ==
    <<<<"declare", sym>>>>
    \o (IF declared(self, sym.name)
        THEN <<<<"error", "Duplicate " \o what \o " '" \o sym.name \o "'",
                 token>>>>
        ELSE <<>>)

\* _pass1: one iteration of "while i < n" is one segment
pass1(self, proc, pc, loc) ==
    LET i == loc.i
        t == type_at(self, i)
        fixed == type_at(self, i + 1) = "fixed"
        j == IF fixed THEN i + 2 ELSE i + 1
    IN  CASE proc = "_pass1" /\ pc = 1 /\ i >= Len(self.tokens) ->
                <<<<"return", <<>>>>>>
          [] proc = "_pass1" /\ pc = 1 /\ i < Len(self.tokens) ->
                (IF t = "group" /\ type_at(self, i + 1) = "identifier"
                 THEN declare_global(self,
                          [Symbol(self.tokens[i + 2].value, "group",
                                  self.tokens[i + 2].value)
                              EXCEPT !.group_members =
                                  IF type_at(self, i + 2) = "{"
                                  THEN group_members(self, i + 3, <<>>)
                                  ELSE <<>>],
                          "group definition", i + 2)
                 ELSE IF /\ t = "worldwide"
                         /\ type_at(self, j) \in PRIMITIVE_TYPES
                         /\ type_at(self, j + 1) = "identifier"
                 THEN declare_global(self,
                          [Symbol(self.tokens[j + 2].value, "variable",
                                  type_at(self, j))
                              EXCEPT !.is_fixed = fixed,
                                     !.is_worldwide = TRUE],
                          "worldwide variable", j + 2)
                 ELSE IF /\ t = "define"
                         /\ type_at(self, i + 1) \in RETURN_TYPES
                         /\ type_at(self, i + 2) = "identifier"
                 THEN declare_global(self,
                          [Symbol(self.tokens[i + 3].value, "function",
                                  type_at(self, i + 1))
                              EXCEPT !.return_type = type_at(self, i + 1),
                                     !.params =
                                         IF type_at(self, i + 3) = "("
                                         THEN function_params(self, i + 4,
                                                              <<>>)
                                         ELSE <<>>],
                          "function definition", i + 3)
                 ELSE <<>>)
                \o <<<<"set", "i", i + 1>>, <<"goto", 1>>>>
          [] OTHER -> <<>>

\* analyze, _pass2 and the methods of "Program structure": the segment pc
\* of the method proc, with the locals loc
program_structure(self, proc, pc, loc) ==
    CASE proc = "analyze" /\ pc = 1 ->
            <<<<"call", "_pass1", [i |-> 0], 3>>>>
      [] proc = "analyze" /\ pc = 3 ->
            <<<<"self", "pos", 0>>, <<"call", "_pass2", <<>>, 2>>>>
      [] proc = "_pass2" /\ pc = 1 -> <<<<"call", "_program", <<>>, 2>>>>
      [] proc = "_program" /\ pc = 1 ->
            <<<<"call", "_group_part", <<>>, 2>>>>
      [] proc = "_group_part" /\ pc = 1 ->
            IF current_type(self) = "group"
            THEN <<<<"call", "_group_definitions", <<>>, 1>>>>
            ELSE <<<<"call", "_worldwide_part", <<>>, 2>>>>
      [] proc = "_group_definitions" /\ pc = 1 ->
            <<<<"consume", "group">>,
              <<"token", "name_tok", "group_name">>,
              <<"consume", "identifier">>,
              <<"consume", "{">>,
              <<"call", "_group_body", <<>>, 3>>>>
      [] proc = "_group_definitions" /\ pc = 3 ->
            <<<<"consume", "}">>, <<"return", <<>>>>>>
      [] proc = "_group_body" /\ pc = 1 ->
            IF current_type(self) \in PRIMITIVE_TYPES
            THEN <<<<"call", "_group_member", <<>>, 1>>>>
            ELSE <<<<"return", <<>>>>>>
      [] proc = "_group_member" /\ pc = 1 ->
            <<<<"call", "_datatype", <<>>, 3>>>>
      [] proc = "_group_member" /\ pc = 3 ->
            <<<<"consume", "identifier">>,
              <<"consume", ";">>,
              <<"return", <<>>>>>>
      [] proc = "_datatype" /\ pc = 1 ->
            IF current_type(self) \in PRIMITIVE_TYPES
            THEN <<<<"advance">>, <<"return", current_type(self)>>>>
            ELSE <<<<"error", "Expected a data type, got '"
                                  \o current_type(self) \o "'", 0>>,
                   <<"advance">>,
                   <<"return", "unknown">>>>
      [] proc = "_worldwide_part" /\ pc = 1 ->
            IF current_type(self) = "worldwide"
            THEN <<<<"call", "_global_variable_declarations", <<>>, 1>>>>
            ELSE <<<<"call", "_define_part", <<>>, 2>>>>
      [] proc = "_global_variable_declarations" /\ pc = 1 ->
            <<<<"consume", "worldwide">>, <<"goto", 3>>>>
      [] proc = "_global_variable_declarations" /\ pc = 3 ->
            IF current_type(self) = "fixed"
            THEN <<<<"advance">>, <<"call", "_datatype", <<>>, 4>>>>
            ELSE <<<<"call", "_datatype", <<>>, 4>>>>
      [] proc = "_global_variable_declarations" /\ pc = 4 ->
            <<<<"set", "dtype", self.ret>>,
              <<"token", "name_tok", "vname">>,
              <<"consume", "identifier">>,
              <<"consume", "=">>,
              <<"call", "_stmt_value", <<>>, 5>>>>
      [] proc = "_global_variable_declarations" /\ pc = 5 ->
            <<<<"consume", ";">>>>
            \o (IF lookup(self, loc.vname) = <<>> THEN <<>>
                ELSE (IF type_compatible(loc.dtype, self.ret[2]) THEN <<>>
                      ELSE <<<<"error",
                          "Type mismatch: cannot assign '" \o self.ret[2]
                              \o "' to '" \o loc.dtype
                              \o "' worldwide variable '" \o loc.vname
                              \o "'", loc.name_tok>>>>)
                     \o <<<<"emit", "=", self.ret[1], "_", loc.vname>>>>)
            \o <<<<"return", <<>>>>>>
      [] proc = "_define_part" /\ pc = 1 ->
            IF current_type(self) = "define"
            THEN <<<<"call", "_function_definitions", <<>>, 1>>>>
            ELSE <<<<"call", "_start_block", <<>>, 2>>>>
      [] proc = "_start_block" /\ pc = 1 ->
            <<<<"consume", "start">>,
              <<"emit", "label", "start", "_", "_">>,
              <<"consume", "{">>,
              <<"enter_scope">>,
              <<"call", "_statements", <<>>, 3>>>>
      [] proc = "_start_block" /\ pc = 3 ->
            <<<<"exit_scope">>,
              <<"consume", "}">>,
              <<"consume", "finish">>,
              <<"emit", "halt", "_", "_", "_">>,
              <<"return", <<>>>>>>
      [] OTHER -> <<>>

\* _check_name_conflicts, as the operations it performs
check_name_conflicts(self, vname, name_tok, label) ==
    LET global_sym == lookup_global(self, vname)
        outer_sym == lookup_in_enclosing_local(self, vname)
    IN  IF global_sym # <<>> /\ global_sym[1].is_worldwide
        THEN <<<<"error",
                 label \o " '" \o vname \o "' conflicts with "
                     \o (IF global_sym[1].is_fixed THEN "fixed worldwide"
                         ELSE "worldwide")
                     \o " variable '" \o vname
                     \o "'; worldwide variables cannot be shadowed"
                     \o " or redeclared", name_tok>>>>
        ELSE IF outer_sym # <<>>
        THEN <<<<"error",
                 label \o " '" \o vname \o "' shadows "
                     \o (IF outer_sym[1].is_fixed THEN "fixed " ELSE "")
                     \o "variable '" \o vname
                     \o "' declared in an enclosing scope", name_tok>>>>
        ELSE <<>>

\* the methods of "Function definitions"
function_definitions(self, proc, pc, loc) ==
    CASE proc = "_function_definitions" /\ pc = 1 ->
            <<<<"consume", "define">>,
              <<"call", "_return_type", <<>>, 3>>>>
      [] proc = "_function_definitions" /\ pc = 3 ->
            <<<<"set", "rtype", self.ret>>,
              <<"token", "name_tok", "fname">>,
              <<"consume", "identifier">>,
              <<"consume", "(">>,
              <<"call", "_parameter_list", <<>>, 4>>>>
      [] proc = "_function_definitions" /\ pc = 4 ->
            <<<<"set", "params", self.ret>>,
              <<"consume", ")">>,
              <<"consume", "{">>,
              <<"emit", "func_begin", loc.fname, "_", "_">>,
              <<"enter_scope">>,
              <<"set", "prev_function", self.current_function>>,
              <<"set", "prev_has_return", self.has_return>>,
              <<"self", "current_function", lookup(self, loc.fname)>>,
              <<"self", "has_return", FALSE>>,
              <<"set", "k", 1>>,
              <<"goto", 5>>>>
      [] proc = "_function_definitions" /\ pc = 5 ->
            IF loc.k <= Len(loc.params)
            THEN LET ptype == loc.params[loc.k][1]
                     pname == loc.params[loc.k][2]
                 IN  check_name_conflicts(self, pname, loc.name_tok,
                                          "Parameter")
                     \o <<<<"declare", Symbol(pname, "parameter", ptype)>>>>
                     \o (IF declared(self, pname)
                         THEN <<<<"error",
                                  "Duplicate parameter name '" \o pname
                                      \o "' in '" \o loc.fname \o "'",
                                  loc.name_tok>>>>
                         ELSE <<>>)
                     \o <<<<"emit", "param_receive", pname, ptype, "_">>,
                          <<"set", "k", loc.k + 1>>,
                          <<"goto", 5>>>>
            ELSE <<<<"call", "_local_declarations", <<>>, 6>>>>
      [] proc = "_function_definitions" /\ pc = 6 ->
            <<<<"call", "_statements", <<>>, 7>>>>
      [] proc = "_function_definitions" /\ pc = 7 ->
            <<<<"call", "_optional_return",
                [func_rtype |-> loc.rtype, name_tok |-> loc.name_tok], 8>>>>
      [] proc = "_function_definitions" /\ pc = 8 ->
            (IF loc.rtype # "empty" /\ ~self.has_return
             THEN <<<<"error",
                      "Function '" \o loc.fname \o "' has return type '"
                          \o loc.rtype
                          \o "' but contains no 'give <value>' statement",
                      loc.name_tok>>>>
             ELSE <<>>)
            \o <<<<"self", "current_function", loc.prev_function>>,
                 <<"self", "has_return", loc.prev_has_return>>,
                 <<"exit_scope">>,
                 <<"consume", "}">>,
                 <<"emit", "func_end", loc.fname, "_", "_">>,
                 <<"return", <<>>>>>>
      [] proc = "_return_type" /\ pc = 1 ->
            IF current_type(self) \in RETURN_TYPES
            THEN <<<<"advance">>, <<"return", current_type(self)>>>>
            ELSE <<<<"error", "Expected a return type, got '"
                                  \o current_type(self) \o "'", 0>>,
                   <<"advance">>,
                   <<"return", "empty">>>>
      [] proc = "_parameter_list" /\ pc = 1 ->
            IF current_type(self) \in PRIMITIVE_TYPES
            THEN <<<<"set", "params", <<>>>>,
                   <<"call", "_parameter", <<>>, 3>>>>
            ELSE <<<<"return", <<>>>>>>
      [] proc = "_parameter_list" /\ pc = 3 ->
            IF current_type(self) = ","
            THEN <<<<"set", "params", Append(loc.params, self.ret)>>,
                   <<"advance">>,
                   <<"call", "_parameter", <<>>, 3>>>>
            ELSE <<<<"return", Append(loc.params, self.ret)>>>>
      [] proc = "_parameter" /\ pc = 1 ->
            <<<<"call", "_datatype", <<>>, 3>>>>
      [] proc = "_parameter" /\ pc = 3 ->
            <<<<"consume", "identifier">>,
              <<"return", <<self.ret, current_value(self)>>>>>>
      [] proc = "_optional_return" /\ pc = 1 ->
            IF current_type(self) # "give"
            THEN <<<<"return", <<>>>>>>
            ELSE <<<<"consume", "give">>, <<"goto", 3>>>>
      [] proc = "_optional_return" /\ pc = 3 ->
            IF current_type(self) = ";"
            THEN <<<<"consume", ";">>,
                   IF loc.func_rtype # "empty"
                   THEN <<"error",
                          "Function with return type '" \o loc.func_rtype
                              \o "' must return a value; use "
                              \o "'give <expr>;' not 'give;'",
                          loc.name_tok>>
                   ELSE <<"emit", "return", "_", "_", "_">>,
                   <<"self", "has_return", TRUE>>,
                   <<"return", <<>>>>>>
            ELSE <<<<"call", "_stmt_value", <<>>, 4>>>>
      [] proc = "_optional_return" /\ pc = 4 ->
            <<<<"consume", ";">>>>
            \o (IF loc.func_rtype = "empty"
                THEN <<<<"error",
                         "Function with 'empty' return type cannot "
                             \o "return a value", loc.name_tok>>>>
                ELSE IF ~type_compatible(loc.func_rtype, self.ret[2])
                THEN <<<<"error",
                         "Return type mismatch: function '"
                             \o loc.func_rtype
                             \o "' but 'give' expression has type '"
                             \o self.ret[2] \o "'", loc.name_tok>>>>
                ELSE <<>>)
            \o <<<<"emit", "return", self.ret[1], "_", "_">>,
                 <<"self", "has_return", TRUE>>,
                 <<"return", <<>>>>>>
      [] OTHER -> <<>>

\* the end of _local_declaration and of _fixed_declaration, from the
\* consume(';') on: the name conflicts, declare, the type check and the
\* quadruple
declare_variable(self, loc, sym, label, fixed) ==
    <<<<"consume", ";">>>>
    \o check_name_conflicts(self, loc.vname, loc.name_tok, label)
    \o <<<<"declare", sym>>>>
    \o (IF ~declared(self, loc.vname) THEN <<>>
        ELSE IF lookup_current_scope(self, loc.vname)[1].is_fixed
        THEN <<<<"error", "Cannot redeclare fixed variable '"
                              \o loc.vname \o "'", loc.name_tok>>>>
        ELSE <<<<"error", "Variable '" \o loc.vname
                              \o "' already declared in this scope",
                 loc.name_tok>>>>)
    \o (IF type_compatible(loc.dtype, self.ret[2]) THEN <<>>
        ELSE <<<<"error",
                 "Type mismatch: cannot assign '" \o self.ret[2]
                     \o "' to " \o fixed \o "'" \o loc.dtype
                     \o "' variable '" \o loc.vname \o "'",
                 loc.name_tok>>>>)
    \o <<<<"emit", "=", self.ret[1], "_", loc.vname>>,
         <<"return", <<>>>>>>

\* the methods of "Local declarations"
declarations(self, proc, pc, loc) ==
    CASE proc = "_local_declarations" /\ pc = 1 ->
            IF \/ current_type(self) \in PRIMITIVE_TYPES \cup {"fixed", "list"}
               \/ /\ current_type(self) = "identifier"
                  /\ peek_next_type(self) = "identifier"
            THEN <<<<"call", "_declaration", <<>>, 1>>>>
            ELSE <<<<"return", <<>>>>>>
      [] proc = "_declaration" /\ pc = 1 ->
            IF current_type(self) = "fixed"
            THEN <<<<"call", "_fixed_declaration", <<>>, 2>>>>
            ELSE IF current_type(self) = "list"
            THEN <<<<"call", "_list_declaration", <<>>, 2>>>>
            ELSE <<<<"call", "_local_declaration", <<>>, 2>>>>
      [] proc = "_local_declaration" /\ pc = 1 ->
            IF current_type(self) = "identifier"
            THEN <<<<"token", "group_type_tok", "group_type">>,
                   <<"advance">>,
                   <<"goto", 3>>>>
            ELSE <<<<"call", "_datatype", <<>>, 5>>>>
      [] proc = "_local_declaration" /\ pc = 3 ->
            LET vname == current_value(self)
                name_tok == current_token(self)
                group_sym == lookup(self, loc.group_type)
            IN  <<<<"consume", "identifier">>, <<"consume", ";">>>>
                \o (IF group_sym = <<>> \/ group_sym[1].kind # "group"
                    THEN <<<<"error", "Undefined group type '"
                                          \o loc.group_type \o "'",
                             loc.group_type_tok>>>>
                    ELSE <<>>)
                \o check_name_conflicts(self, vname, name_tok, "Variable")
                \o <<<<"declare",
                       Symbol(vname, "variable", loc.group_type)>>>>
                \o (IF declared(self, vname)
                    THEN <<<<"error", "Variable '" \o vname
                                 \o "' already declared in this scope",
                             name_tok>>>>
                    ELSE <<>>)
                \o <<<<"return", <<>>>>>>
      [] proc \in {"_local_declaration", "_fixed_declaration"} /\ pc = 5 ->
            <<<<"set", "dtype", self.ret>>,
              <<"token", "name_tok", "vname">>,
              <<"consume", "identifier">>,
              <<"consume", "=">>,
              <<"call", "_stmt_value", <<>>, 6>>>>
      [] proc = "_local_declaration" /\ pc = 6 ->
            declare_variable(self, loc,
                Symbol(loc.vname, "variable", loc.dtype), "Variable", "")
      [] proc = "_fixed_declaration" /\ pc = 1 ->
            <<<<"consume", "fixed">>, <<"call", "_datatype", <<>>, 5>>>>
      [] proc = "_fixed_declaration" /\ pc = 6 ->
            declare_variable(self, loc,
                [Symbol(loc.vname, "variable", loc.dtype)
                     EXCEPT !.is_fixed = TRUE],
                "Fixed variable", "fixed ")
      [] proc = "_list_declaration" /\ pc = 1 ->
            <<<<"consume", "list">>, <<"call", "_datatype", <<>>, 3>>>>
      [] proc = "_list_declaration" /\ pc = 3 ->
            <<<<"set", "dtype", self.ret>>,
              <<"token", "name_tok", "vname">>,
              <<"consume", "identifier">>,
              <<"consume", "=">>,
              <<"call", "_val_list", [expected_type |-> self.ret], 4>>>>
      [] proc = "_list_declaration" /\ pc = 4 ->
            <<<<"consume", ";">>>>
            \o check_name_conflicts(self, loc.vname, loc.name_tok, "Variable")
            \o <<<<"declare",
                   [Symbol(loc.vname, "list", loc.dtype)
                        EXCEPT !.is_list = TRUE, !.list_dim = self.ret[2]]>>>>
            \o (IF declared(self, loc.vname)
                THEN <<<<"error", "Variable '" \o loc.vname
                             \o "' already declared in this scope",
                         loc.name_tok>>>>
                ELSE <<>>)
            \o <<<<"emit", "list_assign", self.ret[1],
                   ToString(self.ret[2]), loc.vname>>,
                 <<"return", <<>>>>>>
      [] OTHER -> <<>>

\* the methods of "List value parsing"
list_values(self, proc, pc, loc) ==
    CASE proc = "_val_list" /\ pc = 1 ->
            IF current_type(self) # "["
            THEN <<<<"error", "Expected '[' to begin list literal", 0>>,
                   <<"return", <<"_", 1, 0>>>>>>
            ELSE IF peek_next_type(self) = "["
            THEN <<<<"call", "_val_list_2d", loc, 3>>>>
            ELSE <<<<"call", "_val_list_1d", loc, 4>>>>
      [] proc = "_val_list" /\ pc = 3 -> <<<<"return", self.ret>>>>
      [] proc = "_val_list" /\ pc = 4 ->
            <<<<"set", "elems", self.ret>>,
              <<"new_temp", "temp">>,
              <<"goto", 5>>>>
      [] proc = "_val_list" /\ pc = 5 ->
            <<<<"emit", "list_1d", ToString(Len(loc.elems)), "_", loc.temp>>,
              <<"return", <<loc.temp, 1, Len(loc.elems)>>>>>>
      [] proc = "_val_list_1d" /\ pc = 1 ->
            <<<<"consume", "[">>, <<"set", "elems", <<>>>>, <<"goto", 3>>>>
      [] proc = "_val_list_1d" /\ pc = 3 ->
            IF current_type(self) # "]"
            THEN <<<<"call", "_arg_value", <<>>, 4>>>>
            ELSE <<<<"goto", 6>>>>
      [] proc = "_val_list_1d" /\ pc = 4 ->
            (IF type_compatible(loc.expected_type, self.ret[2]) THEN <<>>
             ELSE <<<<"error",
                      "List element [" \o ToString(Len(loc.elems))
                          \o "]: expected '" \o loc.expected_type
                          \o "', got '" \o self.ret[2] \o "'", 0>>>>)
            \o <<<<"set", "elems", Append(loc.elems, self.ret[1])>>,
                 <<"emit", "list_elem", self.ret[1],
                   ToString(Len(loc.elems)), "_">>>>
            \o (IF current_type(self) = ","
                THEN <<<<"advance">>, <<"call", "_arg_value", <<>>, 4>>>>
                ELSE <<<<"goto", 6>>>>)
      [] proc = "_val_list_1d" /\ pc = 6 ->
            <<<<"consume", "]">>, <<"return", loc.elems>>>>
      [] proc = "_val_list_2d" /\ pc = 1 ->
            <<<<"consume", "[">>,
              <<"set", "rows", <<>>>>,
              <<"set", "col_count", -1>>,
              <<"goto", 3>>>>
      [] proc = "_val_list_2d" /\ pc = 3 ->
            IF current_type(self) # "]"
            THEN <<<<"call", "_val_list_1d",
                     [expected_type |-> loc.expected_type], 4>>>>
            ELSE <<<<"goto", 6>>>>
      [] proc = "_val_list_2d" /\ pc \in {4, 5} ->
            <<<<"set", "rows", Append(loc.rows, self.ret)>>>>
            \o (IF pc = 4
                THEN <<<<"set", "col_count", Len(self.ret)>>>>
                ELSE IF Len(self.ret) # loc.col_count
                THEN <<<<"error",
                         "2D list row " \o ToString(Len(loc.rows) + 1)
                             \o " has " \o ToString(Len(self.ret))
                             \o " element(s), expected "
                             \o ToString(loc.col_count)
                             \o " (from the first row)", 0>>>>
                ELSE <<>>)
            \o (IF current_type(self) = ","
                THEN <<<<"advance">>,
                       <<"call", "_val_list_1d",
                         [expected_type |-> loc.expected_type], 5>>>>
                ELSE <<<<"goto", 6>>>>)
      [] proc = "_val_list_2d" /\ pc = 6 ->
            <<<<"consume", "]">>, <<"new_temp", "temp">>, <<"goto", 7>>>>
      [] proc = "_val_list_2d" /\ pc = 7 ->
            <<<<"emit", "list_2d", ToString(Len(loc.rows)),
                ToString(IF loc.col_count >= 0 THEN loc.col_count ELSE 0),
                loc.temp>>,
              <<"return", <<loc.temp, 2, Len(loc.rows)>>>>>>
      [] OTHER -> <<>>

\* "requires a numeric or bool operand": the check of the compound
\* assignments, ++ and --
operand_check(op, target_type) ==
    IF target_type \notin NUMERIC_OR_BOOL /\ target_type # "unknown"
    THEN <<<<"error", "Operator '" \o op
                 \o "' requires a numeric or bool operand, got '"
                 \o target_type \o "'", 0>>>>
    ELSE <<>>

\* an assignment that does not look at the types
mismatch_check_silent(target_type, expr_type, target) == <<>>

\* "Type mismatch: cannot assign": the check of the types of "target = e;"
mismatch_check(target_type, expr_type, target) ==
    IF type_compatible(target_type, expr_type) THEN <<>>
    ELSE <<<<"error",
             "Type mismatch: cannot assign '" \o expr_type \o "' to '"
                 \o target_type \o "' variable '" \o target \o "'", 0>>>>

\* a statement that writes to a variable without looking at is_fixed
fixed_check_silent(sym, message_, token) == <<>>

\* "if sym.is_fixed: self._error(...)": the check of a statement that
\* writes to a variable of symbol sym
fixed_check(sym, message_, token) ==
    IF sym # <<>> /\ sym[1].is_fixed THEN <<<<"error", message_, token>>>>
    ELSE <<>>

\* "List index must be integer (num) or bool"
index_check(idx_type) ==
    IF is_valid_index_type(idx_type) THEN <<>>
    ELSE <<<<"error", "List index must be integer (num) or bool, got '"
                          \o idx_type \o "'", 0>>>>

\* the methods of "Statements", "Assignment statement", "Function call as
\* statement" and "I/O statements"
statements(self, proc, pc, loc) ==
    CASE proc \in {"_statements", "_option_statements"} /\ pc = 1 ->
            IF current_type(self) \in STMT_STARTERS
            THEN <<<<"call", "_statement", <<>>, 1>>>>
            ELSE <<<<"return", <<>>>>>>
      [] proc = "_statement" /\ pc = 1 ->
            LET t == current_type(self)
                next_t == peek_next_type(self)
            IN  IF t \in {"check", "select", "each", "during"}
                THEN <<<<"call", "_control_statement", <<>>, 2>>>>
                ELSE IF t \in {"show", "read"}
                THEN <<<<"call", "_io_statement", <<>>, 2>>>>
                ELSE IF t \in {"fixed", "list"} \cup PRIMITIVE_TYPES
                THEN <<<<"call", "_declaration", <<>>, 2>>>>
                ELSE IF t = "identifier"
                THEN IF next_t \in {"=", "+=", "-=", "*=", "/=", "%=", "**=",
                                   "++", "--", "[", "."}
                     THEN <<<<"call", "_assignment_statement", <<>>, 2>>>>
                     ELSE IF next_t = "("
                     THEN <<<<"call", "_function_call_as_statement",
                              <<>>, 2>>>>
                     ELSE IF next_t = "identifier"
                     THEN <<<<"call", "_declaration", <<>>, 2>>>>
                     ELSE <<<<"error", "Unexpected '" \o next_t
                                  \o "' after identifier in statement", 0>>,
                            <<"advance">>,
                            <<"return", <<>>>>>>
                ELSE <<<<"error", "Unexpected token '" \o t
                             \o "' in statement position", 0>>,
                       <<"advance">>,
                       <<"return", <<>>>>>>
      [] proc = "_assignment_statement" /\ pc = 1 ->
            <<<<"call", "_assignable", <<>>, 3>>>>
      [] proc = "_assignment_statement" /\ pc = 3 ->
            <<<<"call", "_assignment_tail",
                [target |-> self.ret[1], target_type |-> self.ret[2],
                 target_sym |-> self.ret[3]], 2>>>>
      [] proc = "_assignable" /\ pc = 1 ->
            IF lookup(self, current_value(self)) = <<>>
            THEN <<<<"consume", "identifier">>,
                   <<"error", "Undeclared variable '"
                                  \o current_value(self) \o "'",
                     current_token(self)>>,
                   <<"return", <<current_value(self), "unknown", <<>>>>>>>>
            ELSE <<<<"token", "name_tok", "vname">>,
                   <<"consume", "identifier">>,
                   <<"goto", 3>>>>
      [] proc = "_assignable" /\ pc = 3 ->
            IF current_type(self) = "["
            THEN <<<<"consume", "[">>, <<"call", "_index_value", <<>>, 4>>>>
            ELSE IF current_type(self) = "."
            THEN <<<<"consume", ".">>, <<"goto", 7>>>>
            ELSE <<<<"return", <<loc.vname,
                                 lookup(self, loc.vname)[1].data_type,
                                 lookup(self, loc.vname)>>>>>>
      [] proc = "_assignable" /\ pc = 4 ->
            <<<<"set", "idx_place", self.ret[1]>>, <<"consume", "]">>>>
            \o index_check(self.ret[2])
            \o <<<<"goto", 5>>>>
      [] proc = "_assignable" /\ pc = 5 ->
            IF current_type(self) = "["
            THEN <<<<"consume", "[">>, <<"call", "_index_value", <<>>, 6>>>>
            ELSE <<<<"return",
                     <<loc.vname \o "[" \o loc.idx_place \o "]",
                       lookup(self, loc.vname)[1].data_type,
                       lookup(self, loc.vname)>>>>>>
      [] proc = "_assignable" /\ pc = 6 ->
            <<<<"consume", "]">>>>
            \o index_check(self.ret[2])
            \o <<<<"return",
                   <<loc.vname \o "[" \o loc.idx_place \o "]["
                         \o self.ret[1] \o "]",
                     lookup(self, loc.vname)[1].data_type,
                     lookup(self, loc.vname)>>>>>>
      [] proc = "_assignable" /\ pc = 7 ->
            LET mname == current_value(self)
                sym == lookup(self, loc.vname)[1]
                group_sym == lookup(self, sym.data_type)
            IN  <<<<"consume", "identifier">>>>
                \o (IF group_sym = <<>> \/ group_sym[1].kind # "group"
                    THEN <<<<"error", "'" \o loc.vname
                                 \o "' is not a group instance",
                             loc.name_tok>>,
                           <<"return", <<loc.vname \o "." \o mname,
                                         "unknown", <<>>>>>>>>
                    ELSE IF mname \notin DOMAIN group_sym[1].group_members
                    THEN <<<<"error", "Group '" \o sym.data_type
                                 \o "' has no member '" \o mname \o "'",
                             current_token(self)>>,
                           <<"return", <<loc.vname \o "." \o mname,
                                         "unknown", <<>>>>>>>>
                    ELSE <<<<"return",
                             <<loc.vname \o "." \o mname,
                               group_sym[1].group_members[mname],
                               <<sym>>>>>>>>)
      [] proc = "_assignment_tail" /\ pc = 1 ->
            LET t == current_type(self)
            IN  fixed_check(loc.target_sym,
                            "Cannot reassign fixed variable '"
                                \o loc.target \o "'", 0)
                \o (IF t = "="
                    THEN <<<<"advance">>,
                           <<"call", "_stmt_value", <<>>, 3>>>>
                    ELSE IF t \in COMPOUND_ASSIGN
                    THEN <<<<"set", "op", t>>,
                           <<"advance">>,
                           <<"call", "_stmt_value", <<>>, 4>>>>
                    ELSE IF t \in {"++", "--"}
                    THEN <<<<"advance">>, <<"consume", ";">>>>
                         \o operand_check(t, loc.target_type)
                         \o <<<<"set", "base_op", SubSeq(t, 1, 1)>>,
                              <<"set", "place", "1">>,
                              <<"new_temp", "temp">>,
                              <<"goto", 5>>>>
                    ELSE <<<<"error", "Expected assignment operator, got '"
                                          \o t \o "'", 0>>,
                           <<"return", <<>>>>>>)
      [] proc = "_assignment_tail" /\ pc = 3 ->
            <<<<"consume", ";">>>>
            \o mismatch_check(loc.target_type, self.ret[2], loc.target)
            \o <<<<"emit", "=", self.ret[1], "_", loc.target>>,
                 <<"return", <<>>>>>>
      [] proc = "_assignment_tail" /\ pc = 4 ->
            <<<<"consume", ";">>>>
            \o operand_check(loc.op, loc.target_type)
            \o <<<<"set", "base_op", SubSeq(loc.op, 1, Len(loc.op) - 1)>>,
                 <<"set", "place", self.ret[1]>>,
                 <<"new_temp", "temp">>,
                 <<"goto", 5>>>>
      [] proc = "_assignment_tail" /\ pc = 5 ->
            <<<<"emit", loc.base_op, loc.target, loc.place, loc.temp>>,
              <<"emit", "=", loc.temp, "_", loc.target>>,
              <<"return", <<>>>>>>
      [] proc = "_function_call_as_statement" /\ pc = 1 ->
            <<<<"call", "_expr_id", <<>>, 3>>>>
      [] proc = "_function_call_as_statement" /\ pc = 3 ->
            <<<<"consume", ";">>, <<"return", <<>>>>>>
      [] proc = "_io_statement" /\ pc = 1 ->
            IF current_type(self) = "show"
            THEN <<<<"consume", "show">>,
                   <<"consume", "(">>,
                   <<"call", "_arg_list", <<>>, 3>>>>
            ELSE <<<<"consume", "read">>, <<"consume", "(">>, <<"goto", 4>>>>
      [] proc = "_io_statement" /\ pc = 3 ->
            <<<<"consume", ")">>, <<"consume", ";">>>>
            \o [k \in 1..Len(self.ret) |->
                    <<"emit", "param", self.ret[k][1], "_", "_">>]
            \o <<<<"emit", "call", "show", ToString(Len(self.ret)), "_">>,
                 <<"return", <<>>>>>>
      [] proc = "_io_statement" /\ pc = 4 ->
            LET vname == current_value(self)
                sym == lookup(self, vname)
            IN  <<<<"consume", "identifier">>,
                  <<"consume", ")">>,
                  <<"consume", ";">>>>
                \o (IF sym = <<>>
                    THEN <<<<"error", "Undeclared variable '" \o vname
                                          \o "'", current_token(self)>>>>
                    ELSE fixed_check(sym,
                                     "Cannot read into fixed variable '"
                                         \o vname \o "'",
                                     current_token(self)))
                \o <<<<"emit", "read", vname, "_", "_">>,
                     <<"return", <<>>>>>>
      [] OTHER -> <<>>

\* the check of a condition's type, with the words of the message
condition_check(cond_type, words) ==
    IF ~is_numeric_or_bool(cond_type) /\ cond_type # "unknown"
    THEN <<<<"error", words \o ", got '" \o cond_type \o "'", 0>>>>
    ELSE <<>>

\* the check of a bound of an each loop
range_check(which, type) ==
    IF type \notin {"num", "unknown"}
    THEN <<<<"error", "'" \o which \o "' value must be integer (num), got '"
                          \o type \o "'", 0>>>>
    ELSE <<>>

\* "{ <statements> }" in a scope of its own, the caller going on at resume
block(resume) ==
    <<<<"consume", "{">>,
      <<"enter_scope">>,
      <<"call", "_statements", <<>>, resume>>>>

\* the end of a branch that falls into the branch that follows it
close_branch_without_goto(loc) ==
    <<<<"emit", "label", loc.L_else, "_", "_">>>>

\* the end of a branch that has a condition: the jump over the branches that
\* follow, then the label the condition jumps to when it is false
close_branch(loc) ==
    <<<<"emit", "goto", "_", "_", loc.L_end>>,
      <<"emit", "label", loc.L_else, "_", "_">>>>

\* the methods of "Control statements"
control_statements(self, proc, pc, loc) ==
    CASE proc = "_control_statement" /\ pc = 1 ->
            IF current_type(self) = "check"
            THEN <<<<"call", "_check_structure", <<>>, 2>>>>
            ELSE IF current_type(self) = "select"
            THEN <<<<"call", "_select_statement", <<>>, 2>>>>
            ELSE IF current_type(self) = "each"
            THEN <<<<"call", "_each_loop", <<>>, 2>>>>
            ELSE IF current_type(self) = "during"
            THEN <<<<"call", "_during_loop", <<>>, 2>>>>
            ELSE <<<<"return", <<>>>>>>
      [] proc = "_check_structure" /\ pc = 1 ->
            <<<<"consume", "check">>,
              <<"consume", "(">>,
              <<"call", "_cond_value", <<>>, 3>>>>
      [] proc = "_check_structure" /\ pc = 3 ->
            <<<<"set", "cond_place", self.ret[1]>>, <<"consume", ")">>>>
            \o condition_check(self.ret[2],
                   "Condition must be boolean or numeric (truthy)")
            \o <<<<"new_label", "L_else">>,
                 <<"new_label", "L_end">>,
                 <<"goto", 4>>>>
      [] proc \in {"_check_structure", "_otherwise_chain"} /\ pc = 4 ->
            <<<<"emit", "if_false", loc.cond_place, "_", loc.L_else>>>>
            \o block(5)
      [] proc = "_check_structure" /\ pc = 5 ->
            <<<<"exit_scope">>,
              <<"consume", "}">>>>
            \o close_branch(loc)
            \o <<<<"call", "_otherwise_chain", [L_end |-> loc.L_end], 6>>>>
      [] proc = "_check_structure" /\ pc = 6 ->
            <<<<"emit", "label", loc.L_end, "_", "_">>,
              <<"return", <<>>>>>>
      [] proc = "_otherwise_chain" /\ pc = 1 ->
            IF current_type(self) = "otherwisecheck"
            THEN <<<<"consume", "otherwisecheck">>,
                   <<"consume", "(">>,
                   <<"call", "_cond_value", <<>>, 3>>>>
            ELSE IF current_type(self) = "otherwise"
            THEN <<<<"consume", "otherwise">>>> \o block(7)
            ELSE <<<<"return", <<>>>>>>
      [] proc = "_otherwise_chain" /\ pc = 3 ->
            <<<<"set", "cond_place", self.ret[1]>>, <<"consume", ")">>>>
            \o condition_check(self.ret[2],
                   "Condition must be boolean or numeric")
            \o <<<<"new_label", "L_else">>, <<"goto", 4>>>>
      [] proc = "_otherwise_chain" /\ pc = 5 ->
            <<<<"exit_scope">>,
              <<"consume", "}">>>>
            \o close_branch(loc)
            \o <<<<"call", "_otherwise_chain", [L_end |-> loc.L_end], 2>>>>
      [] proc = "_otherwise_chain" /\ pc = 7 ->
            <<<<"exit_scope">>, <<"consume", "}">>, <<"return", <<>>>>>>
      [] proc = "_select_statement" /\ pc = 1 ->
            <<<<"consume", "select">>, <<"consume", "(">>, <<"goto", 3>>>>
      [] proc = "_select_statement" /\ pc = 3 ->
            <<<<"set", "vname", current_value(self)>>,
              <<"consume", "identifier">>,
              <<"consume", ")">>,
              <<"consume", "{">>>>
            \o (IF lookup(self, current_value(self)) = <<>>
                THEN <<<<"error", "Undeclared variable '"
                             \o current_value(self) \o "'",
                         current_token(self)>>>>
                ELSE <<>>)
            \o <<<<"new_label", "L_end">>, <<"goto", 4>>>>
      [] proc = "_select_statement" /\ pc = 4 ->
            <<<<"call", "_option_blocks",
                [select_var |-> loc.vname, L_end |-> loc.L_end], 5>>>>
      [] proc = "_select_statement" /\ pc = 5 ->
            <<<<"call", "_optional_fallback", [L_end |-> loc.L_end], 6>>>>
      [] proc = "_select_statement" /\ pc = 6 ->
            <<<<"consume", "}">>,
              <<"emit", "label", loc.L_end, "_", "_">>,
              <<"return", <<>>>>>>
      [] proc = "_option_blocks" /\ pc = 1 ->
            IF current_type(self) = "option"
            THEN <<<<"call", "_option_block", loc, 1>>>>
            ELSE <<<<"return", <<>>>>>>
      [] proc = "_option_block" /\ pc = 1 ->
            <<<<"consume", "option">>, <<"call", "_literal", <<>>, 3>>>>
      [] proc = "_option_block" /\ pc = 3 ->
            <<<<"set", "lit_place", self.ret[1]>>,
              <<"consume", ":">>,
              <<"new_label", "L_next">>,
              <<"new_temp", "temp">>,
              <<"goto", 4>>>>
      [] proc = "_option_block" /\ pc = 4 ->
            <<<<"emit", "==", loc.select_var, loc.lit_place, loc.temp>>,
              <<"emit", "if_false", loc.temp, "_", loc.L_next>>,
              <<"enter_scope">>,
              <<"call", "_option_statements", <<>>, 5>>>>
      [] proc = "_option_block" /\ pc = 5 ->
            <<<<"exit_scope">>, <<"call", "_control_flow", <<>>, 6>>>>
      [] proc = "_option_block" /\ pc = 6 ->
            <<<<"consume", ";">>>>
            \o (IF self.ret = "stop"
                THEN <<<<"emit", "goto", "_", "_", loc.L_end>>>>
                ELSE <<>>)
            \o <<<<"emit", "label", loc.L_next, "_", "_">>,
                 <<"return", <<>>>>>>
      [] proc = "_control_flow" /\ pc = 1 ->
            IF current_type(self) \in {"stop", "skip"}
            THEN <<<<"advance">>, <<"return", current_type(self)>>>>
            ELSE <<<<"error", "Expected 'stop' or 'skip', got '"
                                  \o current_type(self) \o "'", 0>>,
                   <<"return", "stop">>>>
      [] proc = "_optional_fallback" /\ pc = 1 ->
            IF current_type(self) = "fallback"
            THEN <<<<"consume", "fallback">>,
                   <<"consume", ":">>,
                   <<"enter_scope">>,
                   <<"call", "_statements", <<>>, 3>>>>
            ELSE <<<<"return", <<>>>>>>
      [] proc = "_optional_fallback" /\ pc = 3 ->
            <<<<"exit_scope">>, <<"return", <<>>>>>>
      [] OTHER -> <<>>

\* the comparison of a loop that only counts up
each_comparison_up(step_is_negative) == "<="

\* the comparison of the test of an each loop
each_comparison(step_is_negative) ==
    IF step_is_negative THEN ">=" ELSE "<="

\* the methods of "Iterative statements".  The labels and the temporary of
\* the test are drawn in the segment before the one that emits them.
iterative_statements(self, proc, pc, loc) ==
    CASE proc = "_each_loop" /\ pc = 1 ->
            <<<<"consume", "each">>, <<"goto", 3>>>>
      [] proc = "_each_loop" /\ pc = 3 ->
            LET vname == current_value(self)
                var_tok == current_token(self)
                sym == lookup(self, vname)
            IN  <<<<"set", "vname", vname>>, <<"consume", "identifier">>>>
                \o (IF sym = <<>>
                    THEN <<<<"error", "Loop variable '" \o vname
                                 \o "' must be declared before the "
                                 \o "each loop", var_tok>>>>
                    ELSE (IF sym[1].data_type \notin {"num", "unknown"}
                          THEN <<<<"error", "Loop variable '" \o vname
                                       \o "' must be type num (integer), "
                                       \o "got '" \o sym[1].data_type \o "'",
                                   var_tok>>>>
                          ELSE <<>>)
                         \o fixed_check(sym,
                                        "Loop variable '" \o vname
                                            \o "' is fixed and cannot be "
                                            \o "modified", var_tok))
                \o <<<<"consume", "from">>,
                     <<"call", "_from_primary", <<>>, 4>>>>
      [] proc = "_each_loop" /\ pc = 4 ->
            <<<<"set", "from_place", self.ret[1]>>>>
            \o range_check("from", self.ret[2])
            \o <<<<"consume", "to">>, <<"call", "_to_primary", <<>>, 5>>>>
      [] proc = "_each_loop" /\ pc = 5 ->
            <<<<"set", "to_place", self.ret[1]>>>>
            \o range_check("to", self.ret[2])
            \o <<<<"set", "step_place", "1">>,
                 <<"set", "step_is_negative", FALSE>>>>
            \o (IF current_type(self) = "step"
                THEN <<<<"consume", "step">>,
                       <<"call", "_step_primary", <<>>, 6>>>>
                ELSE <<<<"goto", 7>>>>)
      [] proc = "_each_loop" /\ pc = 6 ->
            <<<<"set", "step_place", self.ret[1]>>>>
            \o range_check("step", self.ret[2])
            \o <<<<"set", "step_is_negative",
                   Len(self.ret[1]) > 0 /\ SubSeq(self.ret[1], 1, 1) = "-">>,
                 <<"goto", 7>>>>
      [] proc = "_each_loop" /\ pc = 7 ->
            <<<<"emit", "=", loc.from_place, "_", loc.vname>>,
              <<"new_label", "L_test">>,
              <<"new_label", "L_end">>,
              <<"new_temp", "temp_cond">>,
              <<"goto", 8>>>>
      [] proc = "_each_loop" /\ pc = 8 ->
            <<<<"emit", "label", loc.L_test, "_", "_">>,
              <<"emit", each_comparison(loc.step_is_negative),
                loc.vname, loc.to_place, loc.temp_cond>>,
              <<"emit", "if_false", loc.temp_cond, "_", loc.L_end>>>>
            \o block(11)
      [] proc = "_each_loop" /\ pc = 11 ->
            <<<<"exit_scope">>,
              <<"consume", "}">>,
              <<"new_temp", "temp_inc">>,
              <<"goto", 10>>>>
      [] proc = "_each_loop" /\ pc = 10 ->
            <<<<"emit", "+", loc.vname, loc.step_place, loc.temp_inc>>,
              <<"emit", "=", loc.temp_inc, "_", loc.vname>>,
              <<"emit", "goto", "_", "_", loc.L_test>>,
              <<"emit", "label", loc.L_end, "_", "_">>,
              <<"return", <<>>>>>>
      [] proc = "_during_loop" /\ pc = 1 ->
            <<<<"consume", "during">>,
              <<"consume", "(">>,
              <<"new_label", "L_test">>,
              <<"new_label", "L_end">>,
              <<"goto", 3>>>>
      [] proc = "_during_loop" /\ pc = 3 ->
            <<<<"emit", "label", loc.L_test, "_", "_">>,
              <<"call", "_cond_value", <<>>, 4>>>>
      [] proc = "_during_loop" /\ pc = 4 ->
            <<<<"consume", ")">>>>
            \o condition_check(self.ret[2],
                   "Loop condition must be boolean or numeric")
            \o <<<<"emit", "if_false", self.ret[1], "_", loc.L_end>>>>
            \o block(5)
      [] proc = "_during_loop" /\ pc = 5 ->
            <<<<"exit_scope">>,
              <<"consume", "}">>,
              <<"emit", "goto", "_", "_", loc.L_test>>,
              <<"emit", "label", loc.L_end, "_", "_">>,
              <<"return", <<>>>>>>
      [] OTHER -> <<>>

\* len(str(value).split('.')[1]) when '.' is in value, else 0: the length
\* of the run between the first '.' and the next one, from the k-th
\* character on; seen is TRUE after the first '.'
RECURSIVE frac_digits(_, _, _)
frac_digits(value, k, seen) ==
    IF k > Len(value) THEN 0
    ELSE IF SubSeq(value, k, k) = "."
    THEN IF seen THEN 0 ELSE frac_digits(value, k + 1, TRUE)
    ELSE (IF seen THEN 1 ELSE 0) + frac_digits(value, k + 1, seen)

infer_literal_type(token_type, value) ==
    CASE token_type = "decimal_lit" ->
            IF frac_digits(value, 1, FALSE) <= 11 THEN "decimal"
            ELSE "bigdecimal"
      [] token_type = "num_lit" -> "num"
      [] token_type = "string_lit" -> "text"
      [] token_type = "char_lit" -> "letter"
      [] token_type \in {"Yes", "No"} -> "bool"
      [] OTHER -> "unknown"

\* "Operator ... not valid for type ..."
not_valid_for(op, type) ==
    IF ~is_numeric_or_bool(type) /\ type # "unknown"
    THEN <<<<"error", "Operator '" \o op \o "' not valid for type '"
                          \o type \o "'", 0>>>>
    ELSE <<>>

\* the levels of the expression hierarchy that loop over a binary operator:
\* the operators of the level and the method of its operands
Level ==
    [proc \in {"_expr_or", "_expr_and", "_expr_eq", "_expr_rel", "_expr_add",
               "_expr_mult", "_index_add", "_index_mult"} |->
        CASE proc = "_expr_or" -> [ops |-> {"||"}, next |-> "_expr_and"]
          [] proc = "_expr_and" -> [ops |-> {"&&"}, next |-> "_expr_eq"]
          [] proc = "_expr_eq" -> [ops |-> {"==", "!="}, next |-> "_expr_rel"]
          [] proc = "_expr_rel" ->
                [ops |-> {">", "<", ">=", "<="}, next |-> "_expr_add"]
          [] proc = "_expr_add" -> [ops |-> {"+", "-"}, next |-> "_expr_mult"]
          [] proc = "_expr_mult" ->
                [ops |-> {"*", "/", "%"}, next |-> "_expr_exp"]
          [] proc = "_index_add" ->
                [ops |-> {"+", "-"}, next |-> "_index_mult"]
          [] proc = "_index_mult" ->
                [ops |-> {"*", "/", "%"}, next |-> "_index_exp"]]

\* the body of the loop of a level after its right operand: the errors, if
\* a quadruple is emitted, and the type of its result
level_body(proc, op, left, right) ==
    CASE proc \in {"_expr_or", "_expr_and"} ->
            [errors |-> not_valid_for(op, left) \o not_valid_for(op, right),
             emits |-> TRUE, type |-> "bool"]
      [] proc = "_expr_eq" ->
            [errors |->
                 IF /\ left # "unknown" /\ right # "unknown" /\ left # right
                    /\ ~(left \in NUMERIC_OR_BOOL /\ right \in NUMERIC_OR_BOOL)
                 THEN <<<<"error", "Cannot compare '" \o left \o "' with '"
                              \o right \o "' using '" \o op \o "'", 0>>>>
                 ELSE <<>>,
             emits |-> TRUE, type |-> "bool"]
      [] proc = "_expr_rel" ->
            [errors |-> not_valid_for(op, left) \o not_valid_for(op, right),
             emits |-> TRUE, type |-> "bool"]
      [] proc = "_expr_add" ->
            IF left = "text" \/ right = "text"
            THEN IF op = "+"
                 THEN [errors |-> <<>>, emits |-> TRUE, type |-> "text"]
                 ELSE [errors |-> <<<<"error", "Operator '" \o op
                                          \o "' is not valid on text values",
                                      0>>>>,
                       emits |-> FALSE, type |-> left]
            ELSE IF left = "letter" \/ right = "letter"
            THEN [errors |-> <<<<"error", "Operator '" \o op
                                     \o "' is not valid on letter values",
                                 0>>>>,
                  emits |-> FALSE, type |-> left]
            ELSE [errors |-> <<>>, emits |-> TRUE,
                  type |-> result_type_of_op(op, left, right)]
      [] proc = "_expr_mult" ->
            [errors |->
                 IF {left, right} \cap {"text", "letter"} # {}
                 THEN <<<<"error", "Operator '" \o op \o "' is not valid on "
                              \o (IF (IF left \in {"text", "letter"}
                                      THEN left ELSE right) = "text"
                                  THEN "text" ELSE "letter")
                              \o " values", 0>>>>
                 ELSE <<>>,
             emits |-> TRUE, type |-> result_type_of_op(op, left, right)]
      [] proc \in {"_index_add", "_index_mult"} ->
            [errors |-> <<>>, emits |-> TRUE, type |-> "num"]

\* the methods of "Expression hierarchy"
expression_hierarchy(self, proc, pc, loc) ==
    CASE proc \in {"_stmt_value", "_arg_value", "_cond_value"} /\ pc = 1 ->
            <<<<"call", "_expr_or", <<>>, 9>>>>
      [] proc \in DOMAIN Level /\ pc = 1 ->
            <<<<"call", Level[proc].next, <<>>, 3>>>>
      [] proc \in DOMAIN Level /\ pc \in {3, 4} ->
            LET left == IF pc = 3 THEN self.ret
                        ELSE <<loc.left_place, loc.left_type>>
            IN  IF current_type(self) \in Level[proc].ops
                THEN <<<<"set", "left_place", left[1]>>,
                       <<"set", "left_type", left[2]>>,
                       <<"set", "op", current_type(self)>>,
                       <<"advance">>,
                       <<"call", Level[proc].next, <<>>, 5>>>>
                ELSE <<<<"return", left>>>>
      [] proc \in DOMAIN Level /\ pc = 5 ->
            LET body == level_body(proc, loc.op, loc.left_type, self.ret[2])
            IN  body.errors
                \o (IF body.emits
                    THEN <<<<"set", "right_place", self.ret[1]>>,
                           <<"set", "type", body.type>>,
                           <<"new_temp", "temp">>,
                           <<"goto", 6>>>>
                    ELSE <<<<"goto", 4>>>>)
      [] proc \in DOMAIN Level /\ pc = 6 ->
            <<<<"emit", loc.op, loc.left_place, loc.right_place, loc.temp>>,
              <<"set", "left_place", loc.temp>>,
              <<"set", "left_type", loc.type>>,
              <<"goto", 4>>>>
      [] proc \in {"_expr_exp", "_index_exp"} /\ pc = 1 ->
            <<<<"call", IF proc = "_expr_exp" THEN "_expr_unary"
                        ELSE "_index_unary", <<>>, 3>>>>
      [] proc \in {"_expr_exp", "_index_exp"} /\ pc = 3 ->
            IF current_type(self) = "**"
            THEN <<<<"set", "base_place", self.ret[1]>>,
                   <<"set", "base_type", self.ret[2]>>,
                   <<"advance">>,
                   <<"call", proc, <<>>, 5>>>>
            ELSE <<<<"return", self.ret>>>>
      [] proc \in {"_expr_exp", "_index_exp"} /\ pc = 5 ->
            (IF proc = "_expr_exp" THEN not_valid_for("**", loc.base_type)
             ELSE <<>>)
            \o <<<<"set", "exp_place", self.ret[1]>>,
                 <<"set", "type",
                   IF proc = "_expr_exp"
                   THEN result_type_of_op("**", loc.base_type, self.ret[2])
                   ELSE "num">>,
                 <<"new_temp", "temp">>,
                 <<"goto", 6>>>>
      [] proc \in {"_expr_exp", "_index_exp"} /\ pc = 6 ->
            <<<<"emit", "**", loc.base_place, loc.exp_place, loc.temp>>,
              <<"return", <<loc.temp, loc.type>>>>>>
      [] proc = "_expr_unary" /\ pc = 1 ->
            IF current_type(self) \in {"-", "!"}
            THEN <<<<"set", "op", current_type(self)>>,
                   <<"advance">>,
                   <<"call", "_expr_post", <<>>, 3>>>>
            ELSE <<<<"call", "_expr_post", <<>>, 9>>>>
      [] proc = "_expr_unary" /\ pc = 3 ->
            (IF ~is_numeric_or_bool(self.ret[2]) /\ self.ret[2] # "unknown"
             THEN <<<<"error",
                      (IF loc.op = "-" THEN "Unary '-'" ELSE "Operator '!'")
                          \o " not valid for type '" \o self.ret[2] \o "'",
                      0>>>>
             ELSE <<>>)
            \o <<<<"set", "place", self.ret[1]>>,
                 <<"set", "type",
                   IF loc.op = "-" THEN self.ret[2] ELSE "bool">>,
                 <<"new_temp", "temp">>,
                 <<"goto", 4>>>>
      [] proc \in {"_expr_unary", "_index_unary"} /\ pc = 4 ->
            <<<<"emit", IF loc.op = "-" THEN "unary-" ELSE "!",
                loc.place, "_", loc.temp>>,
              <<"return", <<loc.temp, loc.type>>>>>>
      [] proc = "_expr_post" /\ pc = 1 ->
            <<<<"call", "_expr_prim", <<>>, 9>>>>
      [] proc = "_expr_prim" /\ pc = 1 ->
            LET t == current_type(self)
            IN  IF t = "("
                THEN <<<<"consume", "(">>, <<"call", "_expr_or", <<>>, 3>>>>
                ELSE IF t \in {"num_lit", "decimal_lit", "string_lit",
                               "char_lit", "Yes", "No"}
                THEN <<<<"call", "_literal", <<>>, 9>>>>
                ELSE IF t = "size"
                THEN <<<<"call", "_size_call", <<>>, 9>>>>
                ELSE IF t = "identifier"
                THEN <<<<"call", "_expr_id", <<>>, 9>>>>
                ELSE <<<<"error", "Expected an expression, got '" \o t
                                      \o "'", 0>>>>
                     \o (IF at_end(self) THEN <<>> ELSE <<<<"advance">>>>)
                     \o <<<<"return", <<"_", "unknown">>>>>>
      [] proc \in {"_expr_prim", "_index_prim"} /\ pc = 3 ->
            <<<<"consume", ")">>, <<"return", self.ret>>>>
      [] proc = "_literal" /\ pc = 1 ->
            LET t == current_type(self)
                val == current_value(self)
            IN  <<<<"advance">>>>
                \o (IF t = "decimal_lit" /\ frac_digits(val, 1, FALSE) > 16
                    THEN <<<<"error", "Decimal literal '" \o val \o "' has "
                                 \o ToString(frac_digits(val, 1, FALSE))
                                 \o " fractional digit(s); maximum "
                                 \o "precision is 16 (bigdecimal)", 0>>>>
                    ELSE <<>>)
                \o <<<<"return",
                       <<IF t = "string_lit" THEN "\"" \o val \o "\""
                         ELSE IF t = "char_lit" THEN "'" \o val \o "'"
                         ELSE val,
                         infer_literal_type(t, val)>>>>>>
      [] OTHER -> <<>>

\* the errors of _emit_call for a declared function: the count of the
\* arguments, or else the type of each argument
argument_check(fname, args, params, name_tok) ==
    IF Len(args) # Len(params)
    THEN <<<<"error", "Function '" \o fname \o "' expects "
                 \o ToString(Len(params)) \o " argument(s), got "
                 \o ToString(Len(args)), name_tok>>>>
    ELSE SelectSeq(
             [i \in 1..Len(args) |->
                 <<"error", "Argument " \o ToString(i) \o " of '" \o fname
                       \o "': expected '" \o params[i][1] \o "', got '"
                       \o args[i][2] \o "'", name_tok,
                   type_compatible(params[i][1], args[i][2])>>],
             LAMBDA e : ~e[4])

\* _expr_id, _emit_call, _arg_list and _size_call
identifiers_and_calls(self, proc, pc, loc) ==
    CASE proc = "_expr_id" /\ pc = 1 ->
            <<<<"token", "name_tok", "vname">>,
              <<"consume", "identifier">>,
              <<"goto", 3>>>>
      [] proc = "_expr_id" /\ pc = 3 ->
            LET sym == lookup(self, loc.vname)
            IN  IF current_type(self) = "("
                THEN <<<<"consume", "(">>, <<"call", "_arg_list", <<>>, 4>>>>
                ELSE IF current_type(self) = "["
                THEN <<<<"consume", "[">>,
                       <<"call", "_index_value", <<>>, 6>>>>
                ELSE IF current_type(self) = "."
                THEN <<<<"consume", ".">>, <<"goto", 10>>>>
                ELSE IF sym = <<>>
                THEN <<<<"error", "Undeclared variable '" \o loc.vname
                                      \o "'", loc.name_tok>>,
                       <<"return", <<loc.vname, "unknown">>>>>>
                ELSE <<<<"return", <<loc.vname, sym[1].data_type>>>>>>
      [] proc = "_expr_id" /\ pc = 4 ->
            <<<<"consume", ")">>,
              <<"call", "_emit_call",
                [fname |-> loc.vname, args |-> self.ret,
                 name_tok |-> loc.name_tok], 9>>>>
      [] proc = "_expr_id" /\ pc = 6 ->
            LET sym == lookup(self, loc.vname)
            IN  <<<<"set", "idx_place", self.ret[1]>>, <<"consume", "]">>>>
                \o index_check(self.ret[2])
                \o (IF sym = <<>>
                    THEN <<<<"error", "Undeclared variable '" \o loc.vname
                                          \o "'", loc.name_tok>>,
                           <<"return", <<"_", "unknown">>>>>>
                    ELSE (IF sym[1].is_list THEN <<>>
                          ELSE <<<<"error", "'" \o loc.vname
                                       \o "' is not a list", loc.name_tok>>>>)
                         \o <<<<"goto", 7>>>>)
      [] proc = "_expr_id" /\ pc = 7 ->
            IF current_type(self) = "["
            THEN <<<<"consume", "[">>, <<"call", "_index_value", <<>>, 8>>>>
            ELSE <<<<"new_temp", "temp">>, <<"goto", 11>>>>
      [] proc = "_expr_id" /\ pc = 8 ->
            <<<<"consume", "]">>>>
            \o index_check(self.ret[2])
            \o <<<<"set", "idx_place", loc.idx_place \o "," \o self.ret[1]>>,
                 <<"new_temp", "temp">>,
                 <<"goto", 11>>>>
      [] proc = "_expr_id" /\ pc = 11 ->
            <<<<"emit", "list_access", loc.vname, loc.idx_place, loc.temp>>,
              <<"return",
                <<loc.temp, lookup(self, loc.vname)[1].data_type>>>>>>
      [] proc = "_expr_id" /\ pc = 10 ->
            LET mname == current_value(self)
                sym == lookup(self, loc.vname)
                group_sym == lookup(self, sym[1].data_type)
            IN  <<<<"consume", "identifier">>>>
                \o (IF sym = <<>>
                    THEN <<<<"error", "Undeclared variable '" \o loc.vname
                                          \o "'", loc.name_tok>>,
                           <<"return", <<"_", "unknown">>>>>>
                    ELSE IF group_sym = <<>> \/ group_sym[1].kind # "group"
                    THEN <<<<"error", "'" \o loc.vname
                                 \o "' is not a group instance",
                             loc.name_tok>>,
                           <<"return", <<"_", "unknown">>>>>>
                    ELSE IF mname \notin DOMAIN group_sym[1].group_members
                    THEN <<<<"error", "Group '" \o sym[1].data_type
                                 \o "' has no member '" \o mname \o "'",
                             current_token(self)>>,
                           <<"return", <<"_", "unknown">>>>>>
                    ELSE <<<<"set", "mname", mname>>,
                           <<"set", "type",
                             group_sym[1].group_members[mname]>>,
                           <<"new_temp", "temp">>,
                           <<"goto", 12>>>>)
      [] proc = "_expr_id" /\ pc = 12 ->
            <<<<"emit", "member_access", loc.vname, loc.mname, loc.temp>>,
              <<"return", <<loc.temp, loc.type>>>>>>
      [] proc = "_emit_call" /\ pc = 1 ->
            LET func_sym == lookup(self, loc.fname)
            IN  IF func_sym = <<>>
                THEN <<<<"error", "Undeclared function '" \o loc.fname
                                      \o "'", loc.name_tok>>,
                       <<"return", <<"_", "unknown">>>>>>
                ELSE IF func_sym[1].kind # "function"
                THEN <<<<"error", "'" \o loc.fname \o "' is not a function",
                         loc.name_tok>>,
                       <<"return", <<"_", "unknown">>>>>>
                ELSE argument_check(loc.fname, loc.args, func_sym[1].params,
                                    loc.name_tok)
                     \o [k \in 1..Len(loc.args) |->
                            <<"emit", "param", loc.args[k][1], "_", "_">>]
                     \o (IF func_sym[1].return_type # "empty"
                         THEN <<<<"new_temp", "temp">>, <<"goto", 3>>>>
                         ELSE <<<<"emit", "call", loc.fname,
                                  ToString(Len(loc.args)), "_">>,
                                <<"return", <<"_", "empty">>>>>>)
      [] proc = "_emit_call" /\ pc = 3 ->
            <<<<"emit", "call", loc.fname, ToString(Len(loc.args)),
                loc.temp>>,
              <<"return",
                <<loc.temp, lookup(self, loc.fname)[1].return_type>>>>>>
      [] proc = "_arg_list" /\ pc = 1 ->
            IF current_type(self) \in EXPR_STARTERS
            THEN <<<<"set", "args", <<>>>>,
                   <<"call", "_arg_value", <<>>, 3>>>>
            ELSE <<<<"return", <<>>>>>>
      [] proc = "_arg_list" /\ pc = 3 ->
            IF current_type(self) = ","
            THEN <<<<"set", "args", Append(loc.args, self.ret)>>,
                   <<"advance">>,
                   <<"call", "_arg_value", <<>>, 3>>>>
            ELSE <<<<"return", Append(loc.args, self.ret)>>>>
      [] proc = "_size_call" /\ pc = 1 ->
            <<<<"consume", "size">>, <<"consume", "(">>, <<"goto", 3>>>>
      [] proc = "_size_call" /\ pc = 3 ->
            LET vname == current_value(self)
                sym == lookup(self, vname)
            IN  <<<<"set", "vname", vname>>, <<"consume", "identifier">>>>
                \o (IF sym = <<>>
                    THEN <<<<"error", "Undeclared variable '" \o vname
                                          \o "'", current_token(self)>>>>
                    ELSE IF ~sym[1].is_list
                    THEN <<<<"error", "size() can only be called on a "
                                 \o "list; '" \o vname \o "' is not a list",
                             current_token(self)>>>>
                    ELSE <<>>)
                \o <<<<"set", "dim_arg", "_">>, <<"goto", 4>>>>
      [] proc = "_size_call" /\ pc = 4 ->
            IF current_type(self) = ","
            THEN <<<<"advance">>, <<"goto", 5>>>>
            ELSE <<<<"goto", 6>>>>
      [] proc = "_size_call" /\ pc = 5 ->
            <<<<"set", "dim_arg",
                IF at_end(self) THEN "0" ELSE current_value(self)>>,
              <<"consume", "num_lit">>,
              <<"goto", 6>>>>
      [] proc = "_size_call" /\ pc = 6 ->
            <<<<"consume", ")">>, <<"new_temp", "temp">>, <<"goto", 7>>>>
      [] proc = "_size_call" /\ pc = 7 ->
            <<<<"emit", "size", loc.vname, loc.dim_arg, loc.temp>>,
              <<"return", <<loc.temp, "num">>>>>>
      [] OTHER -> <<>>

\* the methods of "Index expression" and "Loop range primaries" that are
\* not levels of a binary operator
index_and_range(self, proc, pc, loc) ==
    CASE proc = "_index_value" /\ pc = 1 ->
            <<<<"call", "_index_add", <<>>, 9>>>>
      [] proc = "_index_unary" /\ pc = 1 ->
            IF current_type(self) = "-"
            THEN <<<<"set", "op", "-">>,
                   <<"advance">>,
                   <<"call", "_index_prim", <<>>, 3>>>>
            ELSE <<<<"call", "_index_prim", <<>>, 9>>>>
      [] proc = "_index_unary" /\ pc = 3 ->
            <<<<"set", "place", self.ret[1]>>,
              <<"set", "type", "num">>,
              <<"new_temp", "temp">>,
              <<"goto", 4>>>>
      [] proc \in {"_from_primary", "_to_primary", "_step_primary"}
             /\ pc = 1 ->
            <<<<"call", "_range_primary", <<>>, 9>>>>
      [] proc \in {"_index_prim", "_range_primary"} /\ pc = 1 ->
            LET t == current_type(self)
                val == current_value(self)
            IN  IF t = "(" /\ proc = "_index_prim"
                THEN <<<<"consume", "(">>,
                       <<"call", "_index_value", <<>>, 3>>>>
                ELSE IF t = "num_lit"
                THEN <<<<"advance">>, <<"return", <<val, "num">>>>>>
                ELSE IF t = "decimal_lit"
                THEN <<<<"advance">>>>
                     \o (IF proc = "_index_prim"
                         THEN <<<<"error", "List index must be integer "
                                      \o "(num) or bool, got decimal "
                                      \o "literal '" \o val \o "'", 0>>>>
                         ELSE <<>>)
                     \o <<<<"return", <<val, "decimal">>>>>>
                ELSE IF t = "size"
                THEN <<<<"call", "_size_call", <<>>, 9>>>>
                ELSE IF t = "identifier"
                THEN <<<<"call", "_expr_id", <<>>, 9>>>>
                ELSE <<<<"error",
                         (IF proc = "_index_prim"
                          THEN "Expected index expression, got '"
                          ELSE "Expected numeric value for loop range, got '")
                             \o t \o "'", 0>>>>
                     \o (IF at_end(self) THEN <<>> ELSE <<<<"advance">>>>)
                     \o <<<<"return", <<"_", "num">>>>>>
      [] OTHER -> <<>>

\* the segment that the running call is at
segment(self) ==
    LET f == self.frames[Len(self.frames)]
    IN  IF f.pc = 2 THEN <<<<"return", <<>>>>>>
        ELSE IF f.pc = 9 THEN <<<<"return", self.ret>>>>
        ELSE pass1(self, f.proc, f.pc, f.loc)
             \o program_structure(self, f.proc, f.pc, f.loc)
             \o function_definitions(self, f.proc, f.pc, f.loc)
             \o declarations(self, f.proc, f.pc, f.loc)
             \o list_values(self, f.proc, f.pc, f.loc)
             \o statements(self, f.proc, f.pc, f.loc)
             \o control_statements(self, f.proc, f.pc, f.loc)
             \o iterative_statements(self, f.proc, f.pc, f.loc)
             \o expression_hierarchy(self, f.proc, f.pc, f.loc)
             \o identifiers_and_calls(self, f.proc, f.pc, f.loc)
             \o index_and_range(self, f.proc, f.pc, f.loc)

\* analyze() is called on a new SemanticAnalyzer
analyze(tokens_) ==
    [SemanticAnalyzer(tokens_) EXCEPT
        !.status = "walking",
        !.frames = <<[proc |-> "analyze", pc |-> 1, loc |-> <<>>]>>]

\* the walk goes on by one segment
walk(self) == Run(self, segment(self), 1)

-----------------------------------------------------------------------------
(* The token lists that the analyzer is run on *)

\* the deepest nesting of parentheses in an input
MaxNesting == 100

Digits == {"0", "1", "2", "3", "4", "5", "6", "7", "8", "9"}

Letters == {"a", "b", "c", "f", "g", "i", "s", "x", "y"}

\* the words that are the text of a string literal
Strings == {"hi"}

\* the token of a word: a literal, an identifier of one letter, or a token
\* whose kind is its lexeme
Tok(w) ==
    IF \/ SubSeq(w, 1, 1) \in Digits
       \/ Len(w) > 1 /\ SubSeq(w, 1, 1) = "-" /\ SubSeq(w, 2, 2) \in Digits
    THEN [type |-> IF Len(w) > 2 /\ SubSeq(w, Len(w) - 1, Len(w) - 1) = "."
                   THEN "decimal_lit" ELSE "num_lit",
          value |-> w]
    ELSE IF w \in Letters THEN [type |-> "identifier", value |-> w]
    ELSE IF w \in Strings THEN [type |-> "string_lit", value |-> w]
    ELSE [type |-> w, value |-> w]

Toks(words) == [k \in 1..Len(words) |-> Tok(words[k])]

\* "start { body } finish"
Program(body) == <<"start", "{">> \o body \o <<"}", "finish">>

Declarations == <<"num", "a", "=", "1", ";", "num", "i", "=", "0", ";">>

CheckOtherwise ==
    Program(Declarations \o
        <<"check", "(", "a", "<", "2", ")", "{", "a", "=", "2", ";", "}",
          "otherwise", "{", "a", "=", "5", ";", "i", "++", ";", "}">>)

CheckChain ==
    Program(Declarations \o
        <<"check", "(", "a", ")", "{", "a", "=", "2", ";", "}",
          "otherwisecheck", "(", "a", "==", "3", ")", "{", "show", "(", "a",
          ")", ";", "}", "otherwise", "{", "}">>)

Select ==
    Program(Declarations \o
        <<"select", "(", "a", ")", "{",
          "option", "1", ":", "a", "=", "2", ";", "skip", ";",
          "option", "2", ":", "a", "=", "3", ";", "stop", ";",
          "fallback", ":", "a", "=", "4", ";", "}">>)

SelectSkipLast ==
    Program(Declarations \o
        <<"select", "(", "a", ")", "{",
          "option", "1", ":", "i", "=", "1", ";", "skip", ";",
          "fallback", ":", "i", "=", "2", ";", "}">>)

Each ==
    Program(Declarations \o
        <<"each", "i", "from", "1", "to", "3", "{",
          "a", "=", "a", "+", "i", ";", "}">>)

EachDown ==
    Program(Declarations \o
        <<"each", "i", "from", "3", "to", "1", "step", "-1", "{",
          "a", "+=", "i", ";", "}">>)

EachExpressions ==
    Program(Declarations \o
        <<"each", "i", "from", "(", "a", "+", "1", ")", "to",
          "(", "a", "*", "2", ")", "step", "a", "{", "show", "(", "i", ")",
          ";", "}">>)

During ==
    Program(Declarations \o
        <<"during", "(", "a", "<", "3", ")", "{",
          "check", "(", "a", "==", "i", ")", "{",
          "each", "i", "from", "1", "to", "a", "{", "a", "++", ";", "}",
          "}", "a", "++", ";", "}">>)

Functions ==
    <<"group", "g", "{", "num", "x", ";", "}",
      "worldwide", "num", "s", "=", "1.5", ";",
      "define", "num", "f", "(", "num", "x", ",", "num", "y", ")", "{",
      "num", "b", "=", "x", ";", "give", "b", "+", "y", ";", "}">>
    \o Program(<<"g", "a", ";", "a", ".", "x", "=", "f", "(", "1", ",", "s",
                 ")", ";", "list", "num", "b", "=", "[", "1", ",", "2", "]",
                 ";", "b", "[", "0", "]", "=", "size", "(", "b", ")", ";">>)

\* num a = 1; ... a = "hi";
Mismatch == Program(Declarations \o <<"a", "=", "hi", ";">>)

\* fixed num c = 1; and then three more declarations of c
Redeclare ==
    Program(<<"fixed", "num", "c", "=", "1", ";",
              "fixed", "num", "c", "=", "2", ";",
              "num", "c", "=", "3", ";",
              "list", "num", "c", "=", "[", "4", "]", ";">>)

\* worldwide text s = "hi"; and a local declaration of s
Shadow ==
    <<"worldwide", "text", "s", "=", "hi", ";">>
    \o Program(<<"num", "s", "=", "2", ";", "s", "=", "3", ";">>)

\* a worldwide and a local fixed variable, and every statement that writes
\* to a variable, on them
FixedWrites ==
    <<"worldwide", "fixed", "num", "s", "=", "1", ";">>
    \o Program(<<"fixed", "num", "c", "=", "1", ";",
                 "c", "=", "2", ";", "c", "+=", "1", ";", "c", "++", ";",
                 "c", "--", ";", "read", "(", "c", ")", ";",
                 "each", "c", "from", "1", "to", "3", "{",
                 "s", "=", "2", ";", "c", "[", "0", "]", "=", "1", ";",
                 "c", ".", "x", "=", "1", ";", "}">>)

\* elements of a list read and written at places that are expressions
Indexed ==
    Program(Declarations \o
        <<"list", "num", "b", "=", "[", "1", ",", "2", "]", ";",
          "b", "[", "a", "+", "i", "]", "=",
          "b", "[", "a", "*", "i", "]", "+", "-", "a", ";",
          "b", "[", "i", "]", "[", "a", "-", "1", "]", "+=", "1", ";">>)

RECURSIVE Repeat(_, _)
Repeat(word, n) == IF n = 0 THEN <<>> ELSE <<word>> \o Repeat(word, n - 1)

\* "num a = (( ... 1 ... ));" with n pairs of parentheses
Nested(n) ==
    Program(<<"num", "a", "=">> \o Repeat("(", n) \o <<"1">>
            \o Repeat(")", n) \o <<";">>)

Programs ==
    {CheckOtherwise, CheckChain, Select, SelectSkipLast, Each, EachDown,
     EachExpressions, During, Functions, Mismatch, Redeclare,
     Shadow, FixedWrites, Indexed}

\* the list without its k-th word
Without(words, k) ==
    SubSeq(words, 1, k - 1) \o SubSeq(words, k + 1, Len(words))

\* the programs, each of them with one token missing, and the nested ones
SemInputs ==
    {Toks(p) : p \in Programs}
    \cup UNION {{Toks(Without(p, k)) : k \in 1..Len(p)} : p \in Programs}
    \cup {Toks(Nested(n)) : n \in {2, MaxNesting}}

-----------------------------------------------------------------------------
(* The walk of the analyzer as a state machine: one step per segment *)

SemInit ==
    /\ LexerIdle
    /\ ParserUnbuilt
    /\ AnalyzerIdle

\* SemanticAnalyzer(tokens).analyze() is called
Analyze ==
    /\ analyzer.status = "unbuilt"
    /\ \E tks \in SemInputs : analyzer' = analyze(tks)
    /\ UNCHANGED <<lexvars, parservars, types>>

\* the walk goes on
Walk ==
    /\ analyzer.status = "walking"
    /\ analyzer' = walk(analyzer)
    /\ UNCHANGED <<lexvars, parservars, types>>

SemNext ==
    \/ Analyze
    \/ Walk

SpecSem == SemInit /\ [][SemNext]_vars

-----------------------------------------------------------------------------
(* The properties of the walk *)

\* the calls that have entered a scope and not left it yet: the method and
\* the segment at which it goes on
Entered ==
    {<<"_start_block", 3>>, <<"_function_definitions", 5>>,
     <<"_function_definitions", 6>>, <<"_function_definitions", 7>>,
     <<"_function_definitions", 8>>, <<"_check_structure", 5>>,
     <<"_otherwise_chain", 5>>, <<"_otherwise_chain", 7>>,
     <<"_option_block", 5>>, <<"_optional_fallback", 3>>,
     <<"_each_loop", 11>>, <<"_during_loop", 5>>}

\* the number of scopes entered and not left yet
OpenScopes(self) ==
    Cardinality({k \in 1..Len(self.frames) :
                    <<self.frames[k].proc, self.frames[k].pc>> \in Entered})

\* C15: the depth of the symbol table is never below 1 during the walk, it
\* is 1 more than the number of blocks entered and not left yet, so that every
\* enter_scope is matched by exactly one exit_scope, and it is 1 when analyze()
\* has returned, for well-formed and malformed token lists alike
C15_ScopeDepth ==
    analyzer.status # "unbuilt" =>
        /\ Len(analyzer.scopes) >= 1
        /\ Len(analyzer.scopes) = 1 + OpenScopes(analyzer)
        /\ analyzer.status = "returned" => Len(analyzer.scopes) = 1

\* analyze() has returned from a malformed list that has a function body, a
\* branch and an option arm
C15_Witness ==
    /\ analyzer.status = "returned"
    /\ Len(analyzer.scopes) = 1
    /\ analyzer.errors # <<>>
    /\ \E k \in DOMAIN analyzer.quadruples :
          analyzer.quadruples[k].op = "if_false"

\* the places of the jumps in the quadruples
Jumps(self) ==
    {k \in DOMAIN self.quadruples :
        self.quadruples[k].op \in {"goto", "if_false"}}

\* the places of the quadruples that define the label
LabelsOf(self, name) ==
    {k \in DOMAIN self.quadruples :
        self.quadruples[k].op = "label" /\ self.quadruples[k].arg1 = name}

\* C16: in the quadruples that analyze() returns, the result field of every
\* goto and if_false is not the placeholder '_' and names a label that exactly
\* one label quadruple of the list defines
C16_LabelsDefined ==
    analyzer.status = "returned" =>
        \A k \in Jumps(analyzer) :
            /\ analyzer.quadruples[k].result # "_"
            /\ Cardinality(LabelsOf(analyzer,
                                    analyzer.quadruples[k].result)) = 1

\* analyze() has returned, from a malformed list, quadruples that jump
\* forwards and backwards
C16_Witness ==
    /\ analyzer.status = "returned"
    /\ analyzer.errors # <<>>
    /\ \E k \in Jumps(analyzer) :
          /\ analyzer.quadruples[k].op = "goto"
          /\ \E d \in LabelsOf(analyzer, analyzer.quadruples[k].result) :
                d < k
    /\ \E k \in Jumps(analyzer) :
          /\ analyzer.quadruples[k].op = "goto"
          /\ \E d \in LabelsOf(analyzer, analyzer.quadruples[k].result) :
                d > k

\* the call that is running
Top(self) == self.frames[Len(self.frames)]

Quadruple(op, arg1, arg2, result) ==
    [op |-> op, arg1 |-> arg1, arg2 |-> arg2, result |-> result]

\* the quadruples that the step appends, the ones before it being kept
Emits(quads) ==
    analyzer'.quadruples = analyzer.quadruples \o quads

\* the places of the quadruples op whose result is the label
JumpsTo(self, op, label) ==
    {k \in DOMAIN self.quadruples :
        self.quadruples[k].op = op /\ self.quadruples[k].result = label}

\* what has been emitted for the check statement of the k-th call, which is
\* walking its then-branch or, with the call after it, its otherwise branch
CheckEmitted(self, k) ==
    LET f == self.frames[k]
        tests == JumpsTo(self, "if_false", f.loc.L_else)
        gotos == JumpsTo(self, "goto", f.loc.L_end)
    IN  /\ f.pc = 5 =>
            /\ \E t \in tests :
                  /\ tests = {t}
                  /\ self.quadruples[t].arg1 = f.loc.cond_place
            /\ gotos = {}
            /\ LabelsOf(self, f.loc.L_else) = {}
            /\ LabelsOf(self, f.loc.L_end) = {}
        /\ (/\ f.pc = 6
            /\ k < Len(self.frames)
            /\ self.frames[k + 1].proc = "_otherwise_chain"
            /\ self.frames[k + 1].pc = 7) =>
            /\ \E t \in tests, g \in gotos :
                  /\ tests = {t}
                  /\ gotos = {g}
                  /\ t < g
                  /\ LabelsOf(self, f.loc.L_else) = {g + 1}
            /\ LabelsOf(self, f.loc.L_end) = {}

\* what the steps of a check statement with an otherwise branch emit
CheckEmits(self) ==
    LET f == Top(self)
    IN  /\ (f.proc = "_check_structure" /\ f.pc = 3) =>
            /\ Emits(<<>>)
            /\ \/ self.ret[1] \in {self.tokens[k].value :
                                      k \in DOMAIN self.tokens}
               \/ self.ret[1] = "_"
               \/ /\ self.quadruples # <<>>
                  /\ self.quadruples[Len(self.quadruples)].result
                        = self.ret[1]
        /\ (f.proc = "_check_structure" /\ f.pc = 4) =>
            Emits(<<Quadruple("if_false", f.loc.cond_place, "_",
                              f.loc.L_else)>>)
        /\ (f.proc = "_check_structure" /\ f.pc = 5) =>
            Emits(<<Quadruple("goto", "_", "_", f.loc.L_end),
                    Quadruple("label", f.loc.L_else, "_", "_")>>)
        /\ (f.proc = "_otherwise_chain" /\ f.pc = 1
                /\ current_type(self) = "otherwise") =>
            Emits(<<>>)
        /\ (f.proc = "_otherwise_chain" /\ f.pc = 7) =>
            Emits(<<>>)
        /\ (f.proc = "_check_structure" /\ f.pc = 6) =>
            Emits(<<Quadruple("label", f.loc.L_end, "_", "_")>>)

\* C17: for a check statement with an otherwise branch the quadruples are
\* emitted in this order: the quadruples of the condition, one if_false to the
\* else label, the quadruples of the then-branch, exactly one goto to the end
\* label, the label quadruple of the else label, the quadruples of the
\* otherwise branch, and last the label quadruple of the end label
C17_CheckOrder ==
    [][analyzer.status = "walking" =>
          /\ \A k \in 1..Len(analyzer.frames) :
                analyzer.frames[k].proc = "_check_structure" =>
                    CheckEmitted(analyzer, k)
          /\ CheckEmits(analyzer)]_vars

\* a check statement of a well-formed list is about to emit its end label,
\* after an otherwise branch that has emitted quadruples
C17_Witness ==
    /\ analyzer.status = "walking"
    /\ analyzer.errors = <<>>
    /\ Top(analyzer).proc = "_check_structure"
    /\ Top(analyzer).pc = 6
    /\ analyzer.tokens[analyzer.pos].type = "}"
    /\ \E k \in 1..analyzer.pos : analyzer.tokens[k].type = "otherwise"
    /\ \A k \in 1..analyzer.pos : analyzer.tokens[k].type # "otherwisecheck"
    /\ \E g \in JumpsTo(analyzer, "goto", Top(analyzer).loc.L_end) :
          /\ LabelsOf(analyzer, Top(analyzer).loc.L_else) = {g + 1}
          /\ g + 1 < Len(analyzer.quadruples)
          /\ analyzer.quadruples[g - 1].op = "="

\* the label at place j is the end of an option arm that ended in skip: the
\* if_false of an equality test jumps to it, and no goto stands before it
SkipArmEnd(self, j) ==
    /\ j > 1
    /\ self.quadruples[j].op = "label"
    /\ self.quadruples[j - 1].op # "goto"
    /\ \E t \in JumpsTo(self, "if_false", self.quadruples[j].arg1) :
          /\ t > 1
          /\ self.quadruples[t - 1].op = "=="
          /\ self.quadruples[t - 1].result = self.quadruples[t].arg1

\* C18: an option arm that ends in stop emits a goto to L_end before the label
\* of the next arm, an arm that ends in skip emits no jump, and what follows
\* the end of an arm that ended in skip is not the equality test of the next
\* arm, so that control falls from the body of the arm into the statements of
\* the next arm
C18_SkipFallsThrough ==
    [][analyzer.status = "walking" =>
          LET f == Top(analyzer)
              last == Len(analyzer.quadruples)
          IN  /\ (f.proc = "_option_block" /\ f.pc = 6
                      /\ analyzer.ret = "stop") =>
                  Emits(<<Quadruple("goto", "_", "_", f.loc.L_end),
                          Quadruple("label", f.loc.L_next, "_", "_")>>)
              /\ (f.proc = "_option_block" /\ f.pc = 6
                      /\ analyzer.ret = "skip") =>
                  Emits(<<Quadruple("label", f.loc.L_next, "_", "_")>>)
              /\ (f.proc = "_option_block" /\ f.pc = 4
                      /\ SkipArmEnd(analyzer, last)) =>
                  analyzer'.quadruples[last + 1].op # "=="]_vars

\* the comparison that the claim gives for the place of a step
ComparisonFor(step_place) ==
    IF Len(step_place) > 0 /\ SubSeq(step_place, 1, 1) = "-"
    THEN ">=" ELSE "<="

\* what has been emitted for the each loop of the k-th call, which is
\* walking its body
EachEmitted(self, k) ==
    LET f == self.frames[k]
    IN  f.pc = 11 =>
            /\ \E t \in LabelsOf(self, f.loc.L_test) :
                  /\ LabelsOf(self, f.loc.L_test) = {t}
                  /\ t > 1
                  /\ self.quadruples[t - 1] =
                        Quadruple("=", f.loc.from_place, "_", f.loc.vname)
                  /\ self.quadruples[t + 1] =
                        Quadruple(ComparisonFor(f.loc.step_place),
                                  f.loc.vname, f.loc.to_place,
                                  f.loc.temp_cond)
                  /\ self.quadruples[t + 2] =
                        Quadruple("if_false", f.loc.temp_cond, "_",
                                  f.loc.L_end)
            /\ JumpsTo(self, "if_false", f.loc.L_end) # {}
            /\ JumpsTo(self, "goto", f.loc.L_test) = {}
            /\ LabelsOf(self, f.loc.L_end) = {}

\* what the steps of an each loop emit
EachEmits(self) ==
    LET f == Top(self)
    IN  f.proc = "_each_loop" =>
            /\ (f.pc = 5 /\ current_type(self) # "step") =>
                  /\ Emits(<<>>)
                  /\ Top(analyzer').loc.step_place = "1"
            /\ f.pc = 7 =>
                  Emits(<<Quadruple("=", f.loc.from_place, "_",
                                    f.loc.vname)>>)
            /\ f.pc = 8 =>
                  Emits(<<Quadruple("label", f.loc.L_test, "_", "_"),
                          Quadruple(ComparisonFor(f.loc.step_place),
                                    f.loc.vname, f.loc.to_place,
                                    f.loc.temp_cond),
                          Quadruple("if_false", f.loc.temp_cond, "_",
                                    f.loc.L_end)>>)
            /\ f.pc = 11 => Emits(<<>>)
            /\ f.pc = 10 =>
                  Emits(<<Quadruple("+", f.loc.vname, f.loc.step_place,
                                    f.loc.temp_inc),
                          Quadruple("=", f.loc.temp_inc, "_", f.loc.vname),
                          Quadruple("goto", "_", "_", f.loc.L_test),
                          Quadruple("label", f.loc.L_end, "_", "_")>>)

\* C19: for an each loop the quadruples are emitted in this order: the
\* assignment of the from-value to the loop variable, the test label, the
\* comparison of the loop variable with the to-value, which is >= when the
\* step is a literal that begins with '-' and <= otherwise, the if_false to
\* the end label, the body, the addition of the step (1 without a step
\* clause) assigned back to the loop variable, the goto to the test label
\* and the end label
C19_EachOrder ==
    [][analyzer.status = "walking" =>
          /\ \A k \in 1..Len(analyzer.frames) :
                analyzer.frames[k].proc = "_each_loop" =>
                    EachEmitted(analyzer, k)
          /\ EachEmits(analyzer)]_vars

\* an each loop of a well-formed list with the step -1 has walked its body
\* and is about to emit the addition, the goto and the end label
C19_Witness ==
    /\ analyzer.status = "walking"
    /\ analyzer.errors = <<>>
    /\ Top(analyzer).proc = "_each_loop"
    /\ Top(analyzer).pc = 10
    /\ Top(analyzer).loc.step_place = "-1"
    /\ \E t \in LabelsOf(analyzer, Top(analyzer).loc.L_test) :
          /\ analyzer.quadruples[t + 1].op = ">="
          /\ t + 2 < Len(analyzer.quadruples)

\* the token cursor does not move backwards in a step of a pass: analyze()
\* itself sets it back to the first token between the passes
CursorForwards ==
    (/\ analyzer.status = "walking"
     /\ analyzer'.status # "unbuilt"
     /\ Top(analyzer).proc # "analyze") =>
        analyzer'.pos >= analyzer.pos

\* C20: analyze() never raises, whatever the token list: an unexpected token
\* only appends an error, the errors recorded so far being kept, and the token
\* cursor never moves backwards within a pass
C20_NeverRaises ==
    /\ [](analyzer.status # "RecursionError")
    /\ [][CursorForwards]_vars
    /\ [][analyzer.status = "walking" =>
            SubSeq(analyzer'.errors, 1, Len(analyzer.errors))
                = analyzer.errors]_vars

\* the text holds the part, at some place
Contains(text, part) ==
    \E k \in 1..(Len(text) - Len(part) + 1) :
        SubSeq(text, k, k + Len(part) - 1) = part

\* C21: when "x = e;" assigns to a declared variable that is not fixed, and
\* the type of e is not compatible with the declared type of x, the end of the
\* assignment appends exactly one error, which names both types, and still
\* emits the quadruple '='; when the types are compatible it appends none
C21_MismatchReported ==
    [][(/\ analyzer.status = "walking"
        /\ Top(analyzer).proc = "_assignment_tail"
        /\ Top(analyzer).pc = 3
        /\ current_type(analyzer) = ";"
        /\ Top(analyzer).loc.target_sym # <<>>
        /\ ~Top(analyzer).loc.target_sym[1].is_fixed) =>
          LET f == Top(analyzer)
              expr_type == analyzer.ret[2]
              n == Len(analyzer.errors)
          IN  /\ Emits(<<Quadruple("=", analyzer.ret[1], "_", f.loc.target)>>)
              /\ SubSeq(analyzer'.errors, 1, n) = analyzer.errors
              /\ IF type_compatible(f.loc.target_type, expr_type)
                 THEN Len(analyzer'.errors) = n
                 ELSE /\ Len(analyzer'.errors) = n + 1
                      /\ Contains(analyzer'.errors[n + 1].message,
                                  "'" \o expr_type \o "'")
                      /\ Contains(analyzer'.errors[n + 1].message,
                                  "'" \o f.loc.target_type \o "'")]_vars

\* analyze() has returned from num a = 1; num i = 0; a = "hi"; with one
\* error, the mismatch of text and num, and with the quadruple of the
\* assignment
C21_Witness ==
    /\ analyzer.status = "returned"
    /\ analyzer.tokens = Toks(Mismatch)
    /\ Len(analyzer.errors) = 1
    /\ Contains(analyzer.errors[1].message, "'text'")
    /\ Contains(analyzer.errors[1].message, "'num'")
    /\ \E k \in DOMAIN analyzer.quadruples :
          analyzer.quadruples[k] = Quadruple("=", "\"hi\"", "_", "a")

-----------------------------------------------------------------------------
\* the name that the declaration at the top of the stack is about to declare,
\* <<>> when the top of the stack is not at the "declare" of a declaration
Declaring(self) ==
    LET f == Top(self)
    IN  IF \/ f.proc \in {"_local_declaration", "_fixed_declaration"} /\ f.pc = 6
           \/ f.proc = "_list_declaration" /\ f.pc = 4
        THEN <<f.loc.vname>>
        ELSE IF f.proc = "_local_declaration" /\ f.pc = 3
        THEN <<current_value(self)>>
        ELSE <<>>

\* the name is bound as fixed in the innermost scope
BoundFixed(self, name) ==
    /\ declared(self, name)
    /\ lookup_current_scope(self, name)[1].is_fixed

\* C22: a declaration of a name that is bound as fixed in the current scope
\* appends the error "Cannot redeclare fixed variable", the analysis goes on,
\* and the binding of the name in that scope stays as it was
C22_RedeclareFixed ==
    [][(/\ analyzer.status = "walking"
        /\ Declaring(analyzer) # <<>>
        /\ BoundFixed(analyzer, Declaring(analyzer)[1])) =>
          LET name == Declaring(analyzer)[1]
          IN  /\ analyzer'.status = "walking"
              /\ lookup_current_scope(analyzer', name)
                    = lookup_current_scope(analyzer, name)
              /\ \E k \in (Len(analyzer.errors) + 1)..Len(analyzer'.errors) :
                    analyzer'.errors[k].message
                        = "Cannot redeclare fixed variable '" \o name \o "'"]_vars

\* the same for the declarations of a scalar alone, "type name = e;" and
\* "fixed type name = e;", which do look at is_fixed
C22_RedeclareFixedScalar ==
    [][(/\ analyzer.status = "walking"
        /\ Declaring(analyzer) # <<>>
        /\ Top(analyzer).pc = 6
        /\ BoundFixed(analyzer, Declaring(analyzer)[1])) =>
          LET name == Declaring(analyzer)[1]
          IN  /\ analyzer'.status = "walking"
              /\ lookup_current_scope(analyzer', name)
                    = lookup_current_scope(analyzer, name)
              /\ \E k \in (Len(analyzer.errors) + 1)..Len(analyzer'.errors) :
                    analyzer'.errors[k].message
                        = "Cannot redeclare fixed variable '" \o name \o "'"]_vars

-----------------------------------------------------------------------------
\* the walk is in pass 2
InPass2(self) ==
    /\ self.status = "walking"
    /\ \E k \in DOMAIN self.frames : self.frames[k].proc = "_pass2"

\* the names registered as worldwide in the global scope
Worldwide(self) ==
    {name \in DOMAIN self.scopes[1] : self.scopes[1][name].is_worldwide}

\* C23: a worldwide variable is never shadowed: at every point of pass 2
\* lookup(name) gives the worldwide symbol for every worldwide name, also
\* after a local declaration or a parameter of that name has been reported
C23_NeverShadowed ==
    InPass2(analyzer) =>
        \A name \in Worldwide(analyzer) :
            lookup(analyzer, name) = lookup_global(analyzer, name)

-----------------------------------------------------------------------------
\* the list before is the beginning of the list after, element by element
IsPrefix(before, after) ==
    /\ Len(before) <= Len(after)
    /\ \A k \in 1..Len(before) : after[k] = before[k]

\* the token list and the error list of a call of tokenize() only grow
LexerAppendOnly ==
    [][lexpc # "idle" =>
          /\ IsPrefix(tokens, tokens')
          /\ IsPrefix(errors, errors')]_vars

\* C24: the token, error and quadruple lists are append-only during one call
\* of analyze(): what a list held before a step is an unchanged beginning of
\* what it holds after it, so nothing is removed, reordered or modified (no
\* field of an emitted quadruple changes: _backpatch is never called)
C24_AppendOnly ==
    [][analyzer.status = "walking" =>
          /\ IsPrefix(analyzer.tokens, analyzer'.tokens)
          /\ IsPrefix(analyzer.errors, analyzer'.errors)
          /\ IsPrefix(analyzer.quadruples, analyzer'.quadruples)]_vars

\* C24 witness: the walk goes on with jumps emitted and errors recorded
C24_Witness ==
    /\ analyzer.status = "walking"
    /\ Len(analyzer.errors) >= 2
    /\ \E k \in DOMAIN analyzer.quadruples :
          analyzer.quadruples[k].op \in {"goto", "if_false"}

-----------------------------------------------------------------------------
(* The hand-over of the lexer's tokens to a parser *)

\* map_token_type_for_parser: "Map lexer token types to parser-expected types"
map_token_type_for_parser(token_type) ==
    LET mapping ==
            LIT_NUMBER :> "NUM_LIT" @@ LIT_DECIMAL :> "DECIMAL_LIT" @@
            LIT_STRING :> "STRING_LIT" @@ LIT_CHARACTER :> "CHAR_LIT" @@
            IDENTIFIER :> "IDENTIFIER" @@
            ";" :> ";" @@ "," :> "," @@ "(" :> "(" @@ ")" :> ")" @@
            "{" :> "{" @@ "}" :> "}" @@ "[" :> "[" @@ "]" :> "]" @@
            ":" :> ":" @@ "." :> "."
    IN  IF token_type \in DOMAIN mapping THEN mapping[token_type]
        ELSE token_type

\* the tokens that prepare_tokens_for_parser keeps
kept(tokens_) ==
    LET skip_types == {NEWLINE, WHITESPACE_SPACE, WHITESPACE_TAB,
                       COMMENT_SINGLE, COMMENT_MULTI, EOF}
        keep(token) == token.type \notin skip_types
    IN  SelectSeq(tokens_, keep)

\* prepare_tokens_for_parser: "Filter out whitespace/comments and map token
\* types"
prepare_tokens_for_parser(tokens_) ==
    LET filtered == kept(tokens_)
    IN  [k \in 1..Len(filtered) |->
            Token(map_token_type_for_parser(filtered[k].type),
                  filtered[k].value, filtered[k].pos_start,
                  filtered[k].pos_end)]

\* the tokens of tokenize() are prepared for a parser
Prepare ==
    /\ lexpc = "done"
    /\ lexpc' = "prepared"
    /\ LET prepared == prepare_tokens_for_parser(tokens)
       IN  parser_tokens' = [k \in 1..Len(prepared) |-> prepared[k].type]
    /\ UNCHANGED <<source, pos, tokens, errors, scan, calls, semvars, order,
                   form, derived, parser_pos, stack, derivations, step,
                   outcome, message>>

PrepareNext ==
    \/ ScanWhitespace
    \/ ScanComment
    \/ ScanWord
    \/ ScanUnderscore
    \/ ScanNumber
    \/ ScanString
    \/ ScanCharLit
    \/ ScanPlus
    \/ ScanMinus
    \/ ScanStar
    \/ ScanOperator
    \/ ScanLogical
    \/ ScanDelimiter
    \/ ScanInvalid
    \/ AppendEOF
    \/ Prepare

SpecPrepare == LexInit /\ [][PrepareNext]_vars

\* the names under which the table-driven parser and the analyzer match an
\* identifier and the literals
MatchedAs ==
    IDENTIFIER :> "identifier" @@ LIT_NUMBER :> "num_lit" @@
    LIT_DECIMAL :> "decimal_lit" @@ LIT_STRING :> "string_lit" @@
    LIT_CHARACTER :> "char_lit"

\* C25: every token kind that prepare_tokens_for_parser gives out is a
\* terminal of the grammar of the table-driven parser, and an identifier or a
\* literal is given out under the name that the parser and the analyzer match
\* on: identifier, num_lit, decimal_lit, string_lit, char_lit
C25_KindsAgree ==
    lexpc = "prepared" =>
        \A k \in DOMAIN parser_tokens :
            /\ parser_tokens[k] \in terminals
            /\ kept(tokens)[k].type \in DOMAIN MatchedAs =>
                  /\ parser_tokens[k] = MatchedAs[kept(tokens)[k].type]
                  /\ parser_tokens[k] \in EXPR_STARTERS

-----------------------------------------------------------------------------
\* the cursor is on a '-' that a digit, or '.' and a digit, follows
MinusBeforeNumber ==
    /\ lexpc = "scan"
    /\ current_char = "-"
    /\ LET p1 == Lexer_advance(pos)
       IN  IF CharAt(source, p1.idx) = "."
           THEN peek(p1, 1) \in NUM
           ELSE CharAt(source, p1.idx) \in NUM

\* the kinds of token that are operators, opening delimiters, assignment
\* operators or reserved words, read as widely as the words allow
ExpressionContext ==
    {"+", "-", "*", "/", "%", "**", "++", "--", "==", "!=", ">", "<", ">=",
     "<=", "&&", "||", "!", "(", "[", "{",
     "=", "+=", "-=", "*=", "/=", "%=", "**="}
    \cup keywords

\* C26: a '-' directly before a digit (or '.' and a digit) is lexed as the
\* sign of a negative literal only when the token emitted before it is an
\* operator, an opening delimiter, an assignment operator or a keyword that
\* introduces an expression, or when there is no token before it; after any
\* other token the iteration consumes the '-' alone, as the subtraction
\* operator
C26_UnaryContext ==
    [][MinusBeforeNumber =>
          \/ tokens = <<>>
          \/ tokens[Len(tokens)].type \in ExpressionContext
          \/ /\ pos'.idx = pos.idx + 1
             /\ tokens' = Append(tokens, Token("-", <<"-">>, pos, pos'))]_vars

-----------------------------------------------------------------------------
\* the text is emitted as one literal token of the kind, without an error
OneLiteral(kind, text) ==
    /\ errors = <<>>
    /\ Len(tokens) > 0
    /\ tokens[1].type = kind
    /\ tokens[1].value = text

\* C27: the integer part of a numeric literal is capped at 11 digits and the
\* fractional part at 16 digits, for positive and negative literals alike: a
\* literal within the caps that a space follows is emitted as one num_literal
\* or decimal_literal token, with or without a '-' in front, and a literal
\* beyond a cap yields a LexicalError
C27_DigitCaps ==
    lexpc = "done" =>
        \A sign \in {<<>>, <<"-">>}, k \in 1..MaxRun :
            /\ source = sign \o Rep("1", k) \o <<" ">> =>
                  IF k <= MaxIntDigits
                  THEN OneLiteral(LIT_NUMBER, sign \o Rep("1", k))
                  ELSE errors # <<>>
            /\ source = sign \o <<"1", ".">> \o Rep("1", k) \o <<" ">> =>
                  IF k <= MaxDecDigits
                  THEN OneLiteral(LIT_DECIMAL,
                                  sign \o <<"1", ".">> \o Rep("1", k))
                  ELSE errors # <<>>

-----------------------------------------------------------------------------
\* the number of newlines among the first i characters of the text
NewlinesBefore(src, i) == Cardinality({j \in 1..i : src[j] = "\n"})

\* the offset at which the line begins: the first offset with ln newlines
\* before it
LineStart(src, ln) ==
    LET at == {i \in 0..Len(src) : NewlinesBefore(src, i) = ln}
    IN  CHOOSE i \in at : \A j \in at : i <= j

\* the offset of a line and a column in the text
OffsetOf(src, p) == LineStart(src, p.ln) + p.col

\* the text between two places given by line and column
Reslice(src, pos_start, pos_end) ==
    Slice(src, OffsetOf(src, pos_start), OffsetOf(src, pos_end))

\* the line is the number of newlines before the offset and the column is
\* the offset within the line
WellPlaced(src, p) ==
    /\ p.ln = NewlinesBefore(src, p.idx)
    /\ p.col = p.idx - LineStart(src, p.ln)

\* the kinds whose value is not their text: the blanks carry the name of
\* their kind, a comment its text without the tildes and the blanks around
NamedKinds ==
    {NEWLINE, WHITESPACE_SPACE, WHITESPACE_TAB, COMMENT_SINGLE, COMMENT_MULTI}

\* C28 as stated: for every token of every kind, the source text from the
\* line and column of pos_start to pos_end is the value of the token, and
\* the line and column recorded are those of the offset
C28_ResliceEvery ==
    \A k \in DOMAIN tokens :
        /\ WellPlaced(source, tokens[k].pos_start)
        /\ WellPlaced(source, tokens[k].pos_end)
        /\ Reslice(source, tokens[k].pos_start, tokens[k].pos_end)
              = tokens[k].value

\* C28 amended: the line and column of every token are those of its offset,
\* and for every token that is not a blank or a comment the source text from
\* pos_start to pos_end is the value of the token
C28_Reslice ==
    \A k \in DOMAIN tokens :
        /\ WellPlaced(source, tokens[k].pos_start)
        /\ WellPlaced(source, tokens[k].pos_end)
        /\ tokens[k].type \notin NamedKinds =>
              Reslice(source, tokens[k].pos_start, tokens[k].pos_end)
                  = tokens[k].value

\* C28 witness: tokenize has returned a token of several characters that
\* begins on the second line
C28_Witness ==
    /\ lexpc = "done"
    /\ \E k \in DOMAIN tokens :
          /\ tokens[k].type \notin NamedKinds
          /\ tokens[k].pos_start.ln = 1
          /\ Len(tokens[k].value) > 1

-----------------------------------------------------------------------------
(* Four calls of tokenize in a row: on A, on ws, on B and on A + ws + B *)

\* the texts A and B
Pieces ==
    Texts(Alphabet, 1)
    \cup {<<"n", " ">>, <<"1", " ">>, <<"-", "1", " ">>, <<"~", "n">>,
          <<"~", "n", "\n">>, <<"~", "~", "n", "~", "~">>,
          <<"\"", "n", "\"", " ">>, <<"'", "n", "'", " ">>,
          <<"_", "n", " ">>, <<"+", " ">>, <<"=", " ">>, <<"*", " ">>,
          <<"&", "&", " ">>, <<"(", " ">>, <<"n", " ", "=", " ">>}

\* the texts ws
Blanks == {<<>>, <<" ">>, <<"\n">>, <<"\t">>, <<"\t", " ">>}

ConcatInit ==
    /\ source \in Pieces
    /\ pos = [idx |-> 0, ln |-> 0, col |-> 0]
    /\ tokens = <<>>
    /\ errors = <<>>
    /\ scan = [start |-> 0, dfa |-> <<>>, token |-> <<>>]
    /\ lexpc = "scan"
    /\ calls = <<>>
    /\ ParserUnbuilt
    /\ AnalyzerIdle

\* tokenize has returned and Lexer(text).tokenize() is called on the next
\* text: ws after A, B after ws, A + ws + B after B
TokenizeNext ==
    /\ lexpc = "done"
    /\ Len(calls) < 3
    /\ calls' = Append(calls, [source |-> source, tokens |-> tokens,
                               errors |-> errors])
    /\ \E text \in IF Len(calls) = 0 THEN Blanks
                   ELSE IF Len(calls) = 1 THEN Pieces
                   ELSE {calls[1].source \o calls[2].source \o source} :
          source' = text
    /\ pos' = [idx |-> 0, ln |-> 0, col |-> 0]
    /\ tokens' = <<>>
    /\ errors' = <<>>
    /\ scan' = [start |-> 0, dfa |-> <<>>, token |-> <<>>]
    /\ lexpc' = "scan"
    /\ UNCHANGED <<parservars, semvars>>

ConcatNext ==
    \/ ScanWhitespace
    \/ ScanComment
    \/ ScanWord
    \/ ScanUnderscore
    \/ ScanNumber
    \/ ScanString
    \/ ScanCharLit
    \/ ScanPlus
    \/ ScanMinus
    \/ ScanStar
    \/ ScanOperator
    \/ ScanLogical
    \/ ScanDelimiter
    \/ ScanInvalid
    \/ AppendEOF
    \/ TokenizeNext

SpecConcat == ConcatInit /\ [][ConcatNext]_vars

\* the kinds and lexemes of a token list
KindsAndLexemes(tks) ==
    [k \in 1..Len(tks) |-> <<tks[k].type, tks[k].value>>]

\* a token list without the EOF token at its end
WithoutEOF(tks) == SubSeq(tks, 1, Len(tks) - 1)

\* the fourth call has returned, and A and B are tokenized without an error
ConcatDone ==
    /\ lexpc = "done"
    /\ Len(calls) = 3
    /\ calls[1].errors = <<>>
    /\ calls[3].errors = <<>>

\* the text ends in a comment that runs to the end of the line
OpenComment(tks) ==
    /\ Len(tks) > 1
    /\ tks[Len(tks) - 1].type = COMMENT_SINGLE

\* C29 as stated: for valid A and B and a whitespace string ws, the kinds
\* and lexemes of tokenize(A + ws + B) are those of tokens(A), tokens(ws) and
\* tokens(B) one after the other, tokens(X) being what tokenize returns for
\* X alone
C29_ConcatEvery ==
    ConcatDone =>
        KindsAndLexemes(tokens)
            = KindsAndLexemes(calls[1].tokens \o calls[2].tokens
                              \o calls[3].tokens)

\* C29 amended: for A and B that are tokenized without an error, A not ending
\* in a comment that runs to the end of the line, and a whitespace string ws
\* that is not empty, the kinds and lexemes of tokenize(A + ws + B) are those
\* of tokens(A) and tokens(ws), each without its EOF token, and then those of
\* tokens(B)
C29_Concat ==
    (/\ ConcatDone
     /\ calls[2].source # <<>>
     /\ ~OpenComment(calls[1].tokens)) =>
        KindsAndLexemes(tokens)
            = KindsAndLexemes(WithoutEOF(calls[1].tokens)
                              \o WithoutEOF(calls[2].tokens)
                              \o calls[3].tokens)

\* C29 witness: "n = ", a blank and "-1 " have been tokenized one by one and
\* in one text
C29_Witness ==
    /\ ConcatDone
    /\ calls[1].source = <<"n", " ", "=", " ">>
    /\ calls[2].source = <<"\t", " ">>
    /\ calls[3].source = <<"-", "1", " ">>
    /\ Len(tokens) = 9
    /\ tokens[7].type = LIT_NUMBER

-----------------------------------------------------------------------------
\* the iteration pops <statement>, pushes the non-terminal and records the
\* derivation, and the cursor stays where it is
Selects(nonterminal) ==
    /\ outcome' \in {"running", "SyntaxError"}
    /\ stack' = SubSeq(stack, 1, Len(stack) - 1) \o <<nonterminal>>
    /\ derivations' = Append(derivations, <<"<statement>", <<nonterminal>>>>)
    /\ parser_pos' = parser_pos

\* C30: with <statement> on top of the stack and an identifier as current
\* token, parse chooses by the kind of the next token alone: =, +=, -=, *=,
\* /=, %=, **=, ++, --, [ or . selects <assignment_statement>, ( selects
\* <function_call_statement>, an identifier selects <declaration>, and any
\* other next token, the end of the input included, raises a SyntaxError
\* that leaves the stack as it was
C30_StatementLookahead ==
    [][(/\ outcome = "running"
        /\ top_of(ParserState) = "<statement>"
        /\ current_of(ParserState) = "identifier") =>
          LET next == next_token(ParserState)
          IN  IF next \in {"=", "+=", "-=", "*=", "/=", "%=", "**=", "++",
                           "--", "[", "."}
              THEN Selects("<assignment_statement>")
              ELSE IF next = "("
              THEN Selects("<function_call_statement>")
              ELSE IF next = "identifier"
              THEN Selects("<declaration>")
              ELSE /\ outcome' = "SyntaxError"
                   /\ stack' = stack
                   /\ derivations' = derivations
                   /\ parser_pos' = parser_pos]_vars

\* C30 witness: parse has raised the SyntaxError of the lookahead, with
\* <statement> on top of the stack, an identifier as current token and a
\* next token that starts none of the three statements
C30_Witness ==
    /\ outcome = "SyntaxError"
    /\ top_of(ParserState) = "<statement>"
    /\ current_of(ParserState) = "identifier"
    /\ next_token(ParserState)
          \notin AssignmentStarts \cup {"(", "identifier"}
    /\ \E k \in DOMAIN derivations :
          derivations[k] = <<"<statement>", <<"<assignment_statement>">>>>

-----------------------------------------------------------------------------
\* C31: with <val_list> on top of the stack and '[' as current token, parse
\* pops <val_list> and pushes <val_list_2d> when the next token is '[' and
\* <val_list_1d> when it is anything else (']' and the end of the input
\* included), records that derivation and leaves the cursor where it is,
\* whatever the cell (<val_list>, '[') of the table holds
C31_ValListLookahead ==
    [][(/\ outcome = "running"
        /\ top_of(ParserState) = "<val_list>"
        /\ current_of(ParserState) = "[") =>
          LET production ==
                  IF next_token(ParserState) = "["
                  THEN <<"<val_list_2d>">> ELSE <<"<val_list_1d>">>
          IN  /\ outcome' \in {"running", "SyntaxError"}
              /\ stack' = SubSeq(stack, 1, Len(stack) - 1) \o production
              /\ derivations' = Append(derivations,
                                       <<"<val_list>", production>>)
              /\ parser_pos' = parser_pos]_vars

\* C31 witness: parse has expanded <val_list> to <val_list_1d> before the
\* empty literal [ ], although the cell of the table holds <val_list_2d>
C31_Witness ==
    /\ outcome = "running"
    /\ top_of(ParserState) = "<val_list_1d>"
    /\ current_of(ParserState) = "["
    /\ next_token(ParserState) = "]"
    /\ derivations # <<>>
    /\ derivations[Len(derivations)] = <<"<val_list>", <<"<val_list_1d>">>>>
    /\ table[<<"<val_list>", "[">>] = <<"<val_list_2d>">>

-----------------------------------------------------------------------------
\* the stack of a parser that has been constructed is not empty, its bottom
\* element is '$' and '$' is nowhere else on it
StackDiscipline ==
    outcome # "unbuilt" =>
        /\ stack # <<>>
        /\ stack[1] = "$"
        /\ \A i \in 2..Len(stack) : stack[i] # "$"

\* an iteration that records a derivation has replaced the non-terminal on
\* top by the symbols of the production in reverse, by nothing for ['λ']
ReversePush ==
    [][derivations' # derivations =>
          LET production == derivations'[Len(derivations')][2]
          IN  /\ Len(derivations') = Len(derivations) + 1
              /\ derivations'[Len(derivations')][1] = top_of(ParserState)
              /\ top_of(ParserState) \in non_terminals
              /\ \E i \in 1..Len(productions[top_of(ParserState)]) :
                     productions[top_of(ParserState)][i] = production
              /\ stack' = SubSeq(stack, 1, Len(stack) - 1)
                          \o (IF production = <<lambda>> THEN <<>>
                              ELSE [k \in 1..Len(production) |->
                                       production[Len(production) + 1 - k]])
    ]_vars

\* a call has returned True only with '$' on top of the stack, and a call
\* that runs with '$' on top returns True in its next iteration
SuccessAtEndMarker ==
    /\ [](outcome = "True" => top_of(ParserState) = "$")
    /\ [][(outcome = "running" /\ top_of(ParserState) = "$")
          => outcome' = "True"]_vars

\* C32: throughout parse the stack is never empty, its bottom element is '$'
\* and '$' occurs nowhere else on it, and a call that has ended has reported
\* success exactly when '$' has become the top of the stack
C32_EndMarker ==
    /\ StackDiscipline
    /\ outcome \in {"True", "SyntaxError"} =>
           (outcome = "True" <=> top_of(ParserState) = "$")

-----------------------------------------------------------------------------
\* the keys of the two lookaheads of parse
LookaheadKeys == {<<"<statement>", "identifier">>, <<"<val_list>", "[">>}

\* C33: every conflict recorded by _build_parsing_table has the key
\* (<statement>, identifier) or (<val_list>, '['): every other cell of the
\* table is written by at most one production
C33_OnlyLookaheadKeys ==
    outcome # "unbuilt" =>
        \A k \in DOMAIN conflicts : conflicts[k].key \in LookaheadKeys

-----------------------------------------------------------------------------
\* C34: parse never raises "Parser exceeded maximum steps" for a token
\* sequence that the grammar derives from <program>, whatever its length
C34_NoStepLimit ==
    derived => message.text # "Parser exceeded maximum steps"

-----------------------------------------------------------------------------
\* lookup(name) gives a symbol that is fixed
BoundAsFixed(self, name) ==
    lookup(self, name) # <<>> /\ lookup(self, name)[1].is_fixed

\* the name of the variable of the place target: target up to its first
\* '[' or '.'
VariableOf(target) ==
    LET stops == {k \in 1..Len(target) : SubSeq(target, k, k) \in {"[", "."}}
    IN  IF stops = {} THEN target
        ELSE SubSeq(target, 1,
                    (CHOOSE k \in stops : \A j \in stops : k <= j) - 1)

\* the step appends an error with the message, after the errors there were
Reports(message_) ==
    /\ SubSeq(analyzer'.errors, 1, Len(analyzer.errors)) = analyzer.errors
    /\ \E k \in (Len(analyzer.errors) + 1)..Len(analyzer'.errors) :
           analyzer'.errors[k].message = message_

\* the last error recorded is that the variable has no such member
MemberReported(name) ==
    /\ analyzer.errors # <<>>
    /\ \/ analyzer.errors[Len(analyzer.errors)].message
              = "'" \o name \o "' is not a group instance"
       \/ Contains(analyzer.errors[Len(analyzer.errors)].message,
                   "' has no member '")

\* C35: in pass 2, the analysis of a statement that writes to a variable
\* bound as fixed appends an error: an assignment with =, a compound
\* operator, ++ or -- appends "Cannot reassign fixed variable" when it comes
\* to its operator (unless the place is a member that the variable does not
\* have, which has been reported just before), read() appends "Cannot read
\* into fixed variable", and an each loop over the variable appends "Loop
\* variable ... is fixed and cannot be modified"
C35_FixedWritesReported ==
    [][/\ (/\ analyzer.status = "walking"
           /\ Top(analyzer).proc = "_assignment_tail"
           /\ Top(analyzer).pc = 1
           /\ current_type(analyzer)
                  \in {"=", "++", "--"} \cup COMPOUND_ASSIGN
           /\ BoundAsFixed(analyzer, VariableOf(Top(analyzer).loc.target)))
          => /\ InPass2(analyzer)
             /\ \/ Reports("Cannot reassign fixed variable '"
                               \o Top(analyzer).loc.target \o "'")
                \/ /\ Top(analyzer).loc.target_sym = <<>>
                   /\ MemberReported(VariableOf(Top(analyzer).loc.target))
       /\ (/\ analyzer.status = "walking"
           /\ Top(analyzer).proc = "_io_statement"
           /\ Top(analyzer).pc = 4
           /\ BoundAsFixed(analyzer, current_value(analyzer)))
          => /\ InPass2(analyzer)
             /\ Reports("Cannot read into fixed variable '"
                            \o current_value(analyzer) \o "'")
       /\ (/\ analyzer.status = "walking"
           /\ Top(analyzer).proc = "_each_loop"
           /\ Top(analyzer).pc = 3
           /\ BoundAsFixed(analyzer, current_value(analyzer)))
          => /\ InPass2(analyzer)
             /\ Reports("Loop variable '" \o current_value(analyzer)
                            \o "' is fixed and cannot be modified")]_vars

\* C35 witness: analyze() has returned from the program that writes to the
\* fixed c with =, +=, ++, --, read() and an each loop and to the fixed
\* worldwide s, with an error for each of the statements
C35_Witness ==
    /\ analyzer.status = "returned"
    /\ analyzer.tokens = Toks(FixedWrites)
    /\ Cardinality({k \in DOMAIN analyzer.errors :
                       analyzer.errors[k].message
                           = "Cannot reassign fixed variable 'c'"}) = 4
    /\ \E k \in DOMAIN analyzer.errors :
           analyzer.errors[k].message = "Cannot reassign fixed variable 's'"
    /\ \E k \in DOMAIN analyzer.errors :
           analyzer.errors[k].message = "Cannot read into fixed variable 'c'"
    /\ \E k \in DOMAIN analyzer.errors :
           analyzer.errors[k].message
               = "Loop variable 'c' is fixed and cannot be modified"

-----------------------------------------------------------------------------
\* the text is the name of a temporary: _t and digits
IsTemp(text) ==
    /\ Len(text) > 2
    /\ SubSeq(text, 1, 2) = "_t"
    /\ \A k \in 3..Len(text) : SubSeq(text, k, k) \in Digits

\* the temporaries that _new_temp has returned, and those that are the
\* result of a quadruple
Temps(self) ==
    {"_t" \o ToString(n) : n \in 1..self.temp_count}
    \cup {self.quadruples[k].result : k \in
             {j \in DOMAIN self.quadruples :
                 IsTemp(self.quadruples[j].result)}}

\* the text names the temporary t: t is in it and no digit comes after
Mentions(text, t) ==
    \E k \in 1..(Len(text) - Len(t) + 1) :
        /\ SubSeq(text, k, k + Len(t) - 1) = t
        /\ k + Len(t) <= Len(text) =>
               SubSeq(text, k + Len(t), k + Len(t)) \notin Digits

\* the quadruples whose result is t, and those that use t: as an argument,
\* or within the place of an element that they read or write
DefinedAt(self, t) ==
    {k \in DOMAIN self.quadruples : self.quadruples[k].result = t}

UsedAt(self, t) ==
    {k \in DOMAIN self.quadruples :
        \/ Mentions(self.quadruples[k].arg1, t)
        \/ Mentions(self.quadruples[k].arg2, t)
        \/ /\ self.quadruples[k].result # t
           /\ Mentions(self.quadruples[k].result, t)}

\* the temporary that _new_temp has returned last, while the quadruple
\* that defines it has not been emitted yet
Pending(self) ==
    IF self.status = "walking" /\ self.temp_count > 0
    THEN {"_t" \o ToString(self.temp_count)} ELSE {}

\* C36: within one call of analyze, _new_temp never returns a name twice
\* (the count of the temporaries never goes down, and temporary N is named
\* _tN), every temporary is the result of exactly one quadruple once that
\* quadruple has been emitted (of none before), and that quadruple comes
\* before every quadruple that uses the temporary
C36_SingleAssignment ==
    /\ [](analyzer.status \in {"walking", "returned"} =>
            \A t \in Temps(analyzer) :
                /\ Cardinality(DefinedAt(analyzer, t)) <= 1
                /\ t \notin Pending(analyzer) =>
                       Cardinality(DefinedAt(analyzer, t)) = 1
                /\ \A k \in UsedAt(analyzer, t) :
                       \E d \in DefinedAt(analyzer, t) : d < k)
    /\ [][analyzer.status = "walking" =>
              analyzer'.temp_count >= analyzer.temp_count]_vars

\* C36 witness: analyze() has returned from the program that reads and
\* writes elements of a list at places that are expressions, with eight
\* temporaries, each defined once and used afterwards, _t2 and _t7 within
\* the place of an element
C36_Witness ==
    /\ analyzer.status = "returned"
    /\ analyzer.tokens = Toks(Indexed)
    /\ analyzer.temp_count = 8
    /\ \A n \in 1..8 :
           /\ Cardinality(DefinedAt(analyzer, "_t" \o ToString(n))) = 1
           /\ UsedAt(analyzer, "_t" \o ToString(n)) # {}
    /\ \E k \in DOMAIN analyzer.quadruples :
           analyzer.quadruples[k] = Quadruple("=", "_t6", "_", "b[_t2]")
    /\ \E k \in DOMAIN analyzer.quadruples :
           analyzer.quadruples[k] = Quadruple("+", "b[i][_t7]", "1", "_t8")

-----------------------------------------------------------------------------
\* the parsers p and q have the same FIRST set and the same FOLLOW set for
\* every non-terminal, and the same cells with the same productions
SameTables(p, q) ==
    /\ \A nt \in non_terminals :
           /\ p.first[nt] = q.first[nt]
           /\ p.follow[nt] = q.follow[nt]
    /\ DOMAIN p.table = DOMAIN q.table
    /\ \A key \in DOMAIN p.table : p.table[key] = q.table[key]

\* the parsers built in the four orders
Built == {Parsers[1], Parsers[2], OtherParsers[1], OtherParsers[2]}

\* every two of them have the same tables
OrderIndependent == \A p \in Built : SameTables(Parsers[1], p)

\* C37: the FIRST sets, the FOLLOW sets and the table of a parser do not
\* depend on the order in which its construction has iterated over the
\* non-terminals (and over the terminals of a set): parsers built in
\* different orders have equal FIRST, FOLLOW and table, and an iteration of
\* parse does the same with each of them
C37_OrderIndependent ==
    outcome # "unbuilt" =>
        /\ OrderIndependent
        /\ outcome = "running" =>
               \A p \in Built :
                   parse_step(ParserState, p)
                       = parse_step(ParserState, Parsers[order])

\* C37 witness: a parse has returned True with the parser built in reverse
\* order, whose list of conflicts begins with another cell than that of
\* the parser built in the order of the grammar, after expansions taken
\* from the table
C37_Witness ==
    /\ outcome = "True"
    /\ order = 2
    /\ Parsers[2].conflicts[1].key # Parsers[1].conflicts[1].key
    /\ OtherParsers[1].conflicts[1].key # OtherParsers[2].conflicts[1].key
    /\ Len(derivations) > 3

-----------------------------------------------------------------------------
\* the places at which a run of digits starts that only blanks precede and
\* that a letter or an underscore follows at once
DigitLedRuns ==
    {i \in 0..(Len(source) - 1) :
        /\ \A j \in 1..i : source[j] \in WHITESPACE
        /\ source[i + 1] \in NUM
        /\ CharAt(source, i + RunLen(source, i, NUM, Len(source)))
               \in LETTERS \cup {"_"}}

\* C38: a run of digits that a letter or an underscore follows at once is
\* reported as one error that covers the whole run of digits and identifier
\* characters, and no token is emitted for any part of the run
C38_DigitLedRun ==
    lexpc = "done" =>
        \A r \in DigitLedRuns :
            LET n == IdRun(source, r)
            IN  /\ Cardinality({k \in DOMAIN errors :
                                   /\ r <= errors[k].pos_start.idx
                                   /\ errors[k].pos_start.idx < r + n}) = 1
                /\ \E k \in DOMAIN errors :
                       /\ errors[k].pos_start.idx = r
                       /\ errors[k].pos_end.idx = r + n
                /\ \A k \in DOMAIN tokens :
                       ~(/\ r <= tokens[k].pos_start.idx
                         /\ tokens[k].pos_start.idx < r + n)

====
